---- MODULE Spec2Model ----
(***************************************************************************)
(* A model of streamside.struct.Graph (src/streamside/struct.py): the      *)
(* concept / relation store of one sentence, its token-coverage set, its   *)
(* two ID counters, the first_token_id pass of the serializer and the JSON *)
(* round trip (json_dumps / factory); the Penman text of penman_graphs,    *)
(* character by character, and penman_reader reading such text line by    *)
(* line; OffsetMap; clone; convert of json_to_penman.py; the selection and *)
(* navigation handlers of GraphAnnotator (src/streamside/annotator.py).    *)
(*                                                                         *)
(* Python values are represented as follows.                               *)
(*   str used as an ID   a sequence of one-character strings, <<"c","0">>  *)
(*   str in a file       the same; a name given to the API is a TLA+       *)
(*                       string, turned into its characters by chars       *)
(*   dict                a sequence of [key, val] entries in insertion     *)
(*                       order (Python dicts keep insertion order)         *)
(*   list                a sequence; set: a set                            *)
(*   object              the record of its __dict__; a field that was      *)
(*                       never assigned is absent from the record          *)
(*   a return value      a record with one field naming its kind, so that  *)
(*                       values of different Python types stay comparable  *)
(*                                                                         *)
(* Every method of Graph is an operator from the object before the call    *)
(* (and the arguments) to [g |-> the object after it, ret |-> the value    *)
(* returned]; the actions apply these operators to the variable graph.     *)
(***************************************************************************)
EXTENDS Integers, Sequences, FiniteSets, TLC

\* ------------------------------------------------------------------ bounds
MaxConceptId == 2
MaxRelationId == 2
MaxLines == 4

\* ------------------------------------------------------- input alphabets
Text == <<"The", "boy">>
TokenIds == 0..Len(Text)
Names == {"boy"}
Labels == {"ARG0"}

VARIABLES
    graph,      \* the Graph object: the record of its __dict__
    call,       \* the last call: its name and arguments
    ret,        \* the value the last call returned
    issued,     \* history: every ID add_concept / add_relation has returned
    cloned,     \* the Graph object clone() last returned (None before)
    reader,     \* the state of the for loop of penman_reader
    session     \* the GraphAnnotator window: the record of its attributes

vars == <<graph, call, ret, issued, cloned, reader, session>>

\* --------------------------------------------------------- Python values
None == [none |-> TRUE]

NoId == <<>>

DigitChars == <<"0", "1", "2", "3", "4", "5", "6", "7", "8", "9">>

RECURSIVE str(_)
str(n) ==
    IF n < 10 THEN <<DigitChars[n + 1]>>
    ELSE str(n \div 10) \o <<DigitChars[(n % 10) + 1]>>

DigitVal(ch) == (CHOOSE d \in 1..10 : DigitChars[d] = ch) - 1

RECURSIVE int(_)
int(s) ==
    IF Len(s) = 0 THEN 0
    ELSE int(SubSeq(s, 1, Len(s) - 1)) * 10 + DigitVal(s[Len(s)])

SetMin(S) == CHOOSE m \in S : \A x \in S : m <= x

\* sorted(a set of int)
RECURSIVE sorted(_)
sorted(S) ==
    IF S = {} THEN <<>>
    ELSE <<SetMin(S)>> \o sorted(S \ {SetMin(S)})

\* set(a list)
set(l) == {l[i] : i \in 1..Len(l)}

\* list(a set of int): CPython iterates a set of small non-negative ints in
\* ascending order (an int hashes to itself)
list(S) == sorted(S)

RECURSIVE Insert(_, _)
Insert(l, x) ==
    IF Len(l) = 0 THEN <<x>>
    ELSE IF x < Head(l) THEN <<x>> \o l
    ELSE <<Head(l)>> \o Insert(Tail(l), x)

\* list.sort() of a list of int
RECURSIVE ListSort(_)
ListSort(l) ==
    IF Len(l) = 0 THEN <<>>
    ELSE Insert(ListSort(SubSeq(l, 1, Len(l) - 1)), l[Len(l)])

\* ------------------------------------------------------------ characters
\* The characters of the str values the model passes around by name.
chars(s) ==
    [The |-> <<"T", "h", "e">>, boy |-> <<"b", "o", "y">>, I |-> <<"I">>,
     ARG0 |-> <<"A", "R", "G", "0">>, None |-> <<"N", "o", "n", "e">>][s]

\* sep.join(l) for a list of str
RECURSIVE join(_, _)
join(sep, l) ==
    IF Len(l) = 0 THEN <<>>
    ELSE IF Len(l) = 1 THEN l[1]
    ELSE l[1] \o sep \o join(sep, Tail(l))

SetMax(S) == CHOOSE m \in S : \A x \in S : m >= x

\* ------------------------------------------------------------------ dict
Keys(d) == {d[i].key : i \in 1..Len(d)}

KeyList(d) == [i \in 1..Len(d) |-> d[i].key]

DictGet(d, k) ==
    IF k \in Keys(d) THEN d[CHOOSE i \in 1..Len(d) : d[i].key = k].val
    ELSE None

DictSet(d, k, v) ==
    IF k \in Keys(d)
    THEN [i \in 1..Len(d) |-> IF d[i].key = k THEN [key |-> k, val |-> v] ELSE d[i]]
    ELSE Append(d, [key |-> k, val |-> v])

DictDel(d, k) == SelectSeq(d, LAMBDA e : e.key # k)

\* -------------------------------------------------- Concept and Relation
Concept(name, token_ids, attribute) ==
    [name |-> name, token_ids |-> token_ids, attribute |-> attribute]

Relation(parent_id, child_id, label, referent) ==
    [parent_id |-> parent_id, child_id |-> child_id, label |-> label, referent |-> referent]

\* Graph.__init__ (text.split() is given as the token list)
Graph(text_tokens) ==
    [tid |-> None, annotator |-> None, last_saved |-> None, tokens |-> text_tokens,
     concepts |-> <<>>, relations |-> <<>>, covered_token_ids |-> {},
     _concept_id |-> 0, _relation_id |-> 0]

ConceptId(attribute, n) == <<IF attribute THEN "a" ELSE "c">> \o str(n)

RelationId(n) == <<"r">> \o str(n)

\* int(x[1:])
Suffix(id) == int(Tail(id))

\* --------------------------------------------------------------- queries
get_concept(g, concept_id) ==
    [g |-> g,
     ret |-> IF concept_id \in Keys(g.concepts)
             THEN [concept |-> DictGet(g.concepts, concept_id)] ELSE None]

get_relation(g, relation_id) ==
    [g |-> g,
     ret |-> IF relation_id \in Keys(g.relations)
             THEN [relation |-> DictGet(g.relations, relation_id)] ELSE None]

child_relations(g, parent_id, ignore_referent) ==
    IF parent_id \notin Keys(g.concepts) THEN <<>>
    ELSE SelectSeq(g.relations, LAMBDA e :
            e.val.parent_id = parent_id /\ ~(ignore_referent /\ e.val.referent))

\* parent_relations without the referent filter
parent_relations_all(g, child_id, ignore_referent) ==
    IF child_id \notin Keys(g.concepts) THEN <<>>
    ELSE SelectSeq(g.relations, LAMBDA e : e.val.child_id = child_id)

parent_relations(g, child_id, ignore_referent) ==
    IF child_id \notin Keys(g.concepts) THEN <<>>
    ELSE SelectSeq(g.relations, LAMBDA e :
            e.val.child_id = child_id /\ ~(ignore_referent /\ e.val.referent))

get_parent_ids(g, child_id, ignore_referent) ==
    {e.val.parent_id : e \in set(parent_relations(g, child_id, ignore_referent))}

get_child_ids(g, parent_id, ignore_referent) ==
    {e.val.child_id : e \in set(child_relations(g, parent_id, ignore_referent))}

\* cids.sort(key=lambda x: int(x[1:])): a stable sort
RECURSIVE SortBySuffix(_)
SortBySuffix(l) ==
    IF Len(l) = 0 THEN <<>>
    ELSE LET rest == SortBySuffix(SubSeq(l, 1, Len(l) - 1))
             x == l[Len(l)]
         IN SelectSeq(rest, LAMBDA y : Suffix(y) <= Suffix(x)) \o <<x>>
              \o SelectSeq(rest, LAMBDA y : Suffix(y) > Suffix(x))

root_ids(g) ==
    SortBySuffix(SelectSeq(KeyList(g.concepts),
                           LAMBDA cid : Len(parent_relations(g, cid, TRUE)) = 0))

\* -------------------------------------------------------------- concepts
\* add_concept marking the requested indices as covered before it has
\* checked them all
add_concept_leaky(g, name, token_ids, attribute) ==
    IF token_ids # {} /\ token_ids \cap g.covered_token_ids # {}
    THEN [g |-> [g EXCEPT !.covered_token_ids = g.covered_token_ids \cup token_ids],
          ret |-> None]
    ELSE LET cid == ConceptId(attribute, g._concept_id)
         IN [g |-> [g EXCEPT
                      !.covered_token_ids = g.covered_token_ids \cup token_ids,
                      !._concept_id = g._concept_id + 1,
                      !.concepts = DictSet(g.concepts, cid,
                                           Concept(name, sorted(token_ids), attribute))],
             ret |-> [id |-> cid]]

\* add_concept leaving the counter as it was
add_concept_recount(g, name, token_ids, attribute) ==
    IF token_ids # {} /\ token_ids \cap g.covered_token_ids # {}
    THEN [g |-> g, ret |-> None]
    ELSE LET cid == ConceptId(attribute, g._concept_id)
         IN [g |-> [g EXCEPT
                      !.covered_token_ids = g.covered_token_ids \cup token_ids,
                      !.concepts = DictSet(g.concepts, cid,
                                           Concept(name, sorted(token_ids), attribute))],
             ret |-> [id |-> cid]]

add_concept(g, name, token_ids, attribute) ==
    IF token_ids # {} /\ token_ids \cap g.covered_token_ids # {}
    THEN [g |-> g, ret |-> None]
    ELSE LET cid == ConceptId(attribute, g._concept_id)
         IN [g |-> [g EXCEPT
                      !.covered_token_ids = g.covered_token_ids \cup token_ids,
                      !._concept_id = g._concept_id + 1,
                      !.concepts = DictSet(g.concepts, cid,
                                           Concept(name, sorted(token_ids), attribute))],
             ret |-> [id |-> cid]]

\* add_token_ids extending the concept by the whole argument
add_token_ids_all(g, concept_id, token_ids) ==
    LET c == DictGet(g.concepts, concept_id)
        s == token_ids \ g.covered_token_ids
    IN IF concept_id \notin Keys(g.concepts) THEN [g |-> g, ret |-> None]
       ELSE IF s = {} THEN [g |-> g, ret |-> None]
       ELSE [g |-> [g EXCEPT
                      !.covered_token_ids = g.covered_token_ids \cup s,
                      !.concepts = DictSet(g.concepts, concept_id,
                            [c EXCEPT !.token_ids = ListSort(c.token_ids \o list(token_ids))])],
             ret |-> [token_ids |-> s]]

add_token_ids(g, concept_id, token_ids) ==
    LET c == DictGet(g.concepts, concept_id)
        s == token_ids \ g.covered_token_ids
    IN IF concept_id \notin Keys(g.concepts) THEN [g |-> g, ret |-> None]
       ELSE IF s = {} THEN [g |-> g, ret |-> None]
       ELSE [g |-> [g EXCEPT
                      !.covered_token_ids = g.covered_token_ids \cup s,
                      !.concepts = DictSet(g.concepts, concept_id,
                            [c EXCEPT !.token_ids = ListSort(c.token_ids \o list(s))])],
             ret |-> [token_ids |-> s]]

\* remove_token_ids leaving covered_token_ids as it was
remove_token_ids_keep(g, concept_id, token_ids) ==
    LET c == DictGet(g.concepts, concept_id)
        s == set(c.token_ids) \cap token_ids
    IN IF concept_id \notin Keys(g.concepts) THEN [g |-> g, ret |-> None]
       ELSE IF s = {} THEN [g |-> g, ret |-> None]
       ELSE [g |-> [g EXCEPT
                      !.concepts = DictSet(g.concepts, concept_id,
                            [c EXCEPT !.token_ids = SelectSeq(c.token_ids, LAMBDA t : t \notin s)])],
             ret |-> [token_ids |-> s]]

remove_token_ids(g, concept_id, token_ids) ==
    LET c == DictGet(g.concepts, concept_id)
        s == set(c.token_ids) \cap token_ids
    IN IF concept_id \notin Keys(g.concepts) THEN [g |-> g, ret |-> None]
       ELSE IF s = {} THEN [g |-> g, ret |-> None]
       ELSE [g |-> [g EXCEPT
                      !.covered_token_ids = g.covered_token_ids \ s,
                      !.concepts = DictSet(g.concepts, concept_id,
                            [c EXCEPT !.token_ids = SelectSeq(c.token_ids, LAMBDA t : t \notin s)])],
             ret |-> [token_ids |-> s]]

\* update_concept creating the concept it does not find
update_concept_upsert(g, concept_id, name) ==
    LET c == IF concept_id \in Keys(g.concepts)
             THEN [DictGet(g.concepts, concept_id) EXCEPT !.name = name]
             ELSE Concept(name, <<>>, FALSE)
    IN [g |-> [g EXCEPT !.concepts = DictSet(g.concepts, concept_id, c)],
        ret |-> [concept |-> c]]

update_concept(g, concept_id, name) ==
    LET c == [DictGet(g.concepts, concept_id) EXCEPT !.name = name]
    IN IF concept_id \notin Keys(g.concepts) THEN [g |-> g, ret |-> None]
       ELSE [g |-> [g EXCEPT !.concepts = DictSet(g.concepts, concept_id, c)],
             ret |-> [concept |-> c]]

\* remove_concept cascading to the relations of which the concept is the
\* parent only
remove_concept_parent_only(g, concept_id, remove_relations) ==
    LET con == DictGet(g.concepts, concept_id)
    IN IF concept_id \notin Keys(g.concepts) THEN [g |-> g, ret |-> None]
       ELSE [g |-> [g EXCEPT
                      !.relations = IF remove_relations
                                    THEN SelectSeq(g.relations, LAMBDA e :
                                            ~(e.val.parent_id = concept_id))
                                    ELSE g.relations,
                      !.concepts = DictDel(g.concepts, concept_id),
                      !.covered_token_ids = g.covered_token_ids \ set(con.token_ids)],
             ret |-> [concept |-> con]]

\* remove_concept leaving covered_token_ids as it was
remove_concept_covered(g, concept_id, remove_relations) ==
    LET con == DictGet(g.concepts, concept_id)
    IN IF concept_id \notin Keys(g.concepts) THEN [g |-> g, ret |-> None]
       ELSE [g |-> [g EXCEPT
                      !.relations = IF remove_relations
                                    THEN SelectSeq(g.relations, LAMBDA e :
                                            ~(e.val.parent_id = concept_id
                                              \/ e.val.child_id = concept_id))
                                    ELSE g.relations,
                      !.concepts = DictDel(g.concepts, concept_id)],
             ret |-> [concept |-> con]]

remove_concept(g, concept_id, remove_relations) ==
    LET con == DictGet(g.concepts, concept_id)
    IN IF concept_id \notin Keys(g.concepts) THEN [g |-> g, ret |-> None]
       ELSE [g |-> [g EXCEPT
                      !.relations = IF remove_relations
                                    THEN SelectSeq(g.relations, LAMBDA e :
                                            ~(e.val.parent_id = concept_id
                                              \/ e.val.child_id = concept_id))
                                    ELSE g.relations,
                      !.concepts = DictDel(g.concepts, concept_id),
                      !.covered_token_ids = g.covered_token_ids \ set(con.token_ids)],
             ret |-> [concept |-> con]]

\* ------------------------------------------------------------- relations
\* an add_relation that stores nothing unless both IDs are concepts
add_relation_checked(g, parent_id, child_id, label, referent) ==
    LET rid == RelationId(g._relation_id)
    IN IF parent_id \notin Keys(g.concepts) \/ child_id \notin Keys(g.concepts)
       THEN [g |-> g, ret |-> None]
       ELSE [g |-> [g EXCEPT
                      !._relation_id = g._relation_id + 1,
                      !.relations = DictSet(g.relations, rid,
                                            Relation(parent_id, child_id, label, referent))],
             ret |-> [id |-> rid]]

add_relation(g, parent_id, child_id, label, referent) ==
    LET rid == RelationId(g._relation_id)
    IN [g |-> [g EXCEPT
                 !._relation_id = g._relation_id + 1,
                 !.relations = DictSet(g.relations, rid,
                                       Relation(parent_id, child_id, label, referent))],
        ret |-> [id |-> rid]]

update_relation(g, relation_id, label) ==
    LET r == [DictGet(g.relations, relation_id) EXCEPT !.label = label]
    IN IF relation_id \notin Keys(g.relations) THEN [g |-> g, ret |-> None]
       ELSE [g |-> [g EXCEPT !.relations = DictSet(g.relations, relation_id, r)],
             ret |-> [relation |-> r]]

\* remove_relation giving the ID back to the counter
remove_relation_recycling(g, relation_id) ==
    IF relation_id \in Keys(g.relations)
    THEN [g |-> [g EXCEPT !.relations = DictDel(g.relations, relation_id),
                          !._relation_id = g._relation_id - 1],
          ret |-> [relation |-> DictGet(g.relations, relation_id)]]
    ELSE [g |-> g, ret |-> None]

remove_relation(g, relation_id) ==
    IF relation_id \in Keys(g.relations)
    THEN [g |-> [g EXCEPT !.relations = DictDel(g.relations, relation_id)],
          ret |-> [relation |-> DictGet(g.relations, relation_id)]]
    ELSE [g |-> g, ret |-> None]

\* ------------------------------------------------------- first_token_id
MAX == 1000000

WithFirst(c, v) ==
    [name |-> c.name, token_ids |-> c.token_ids, attribute |-> c.attribute,
     first_token_id |-> v]

\* The first loop of _assign_first_token_ids: every concept gets the field.
AssignInit(cs) ==
    [i \in 1..Len(cs) |->
        [key |-> cs[i].key,
         val |-> WithFirst(cs[i].val,
                           IF Len(cs[i].val.token_ids) > 0 THEN cs[i].val.token_ids[1] ELSE MAX)]]

CountMax(cs) == Cardinality({i \in 1..Len(cs) : Len(cs[i].val.token_ids) = 0})

\* The inner loop over get_parent_ids(cid, True) for the concept at position
\* i. A parent ID that names no concept makes get_concept return None, and
\* parent.token_ids raises AttributeError; the parents visited before it
\* (Python fixes no order on a set of str) are those in early.
VisitConcept(g, st, i, early) ==
    LET first_token_id == st.cs[i].val.first_token_id
        pids == get_parent_ids(g, st.cs[i].key, TRUE)
        raises == pids \ Keys(st.cs) # {}
        todo == IF raises THEN pids \cap early ELSE pids
        hit == {j \in 1..Len(st.cs) :
                    /\ st.cs[j].key \in todo
                    /\ Len(st.cs[j].val.token_ids) = 0
                    /\ first_token_id < st.cs[j].val.first_token_id}
    IN IF first_token_id < MAX
       THEN [cs |-> [j \in 1..Len(st.cs) |->
                        IF j \in hit
                        THEN [key |-> st.cs[j].key,
                              val |-> WithFirst(st.cs[j].val, first_token_id)]
                        ELSE st.cs[j]],
             count |-> st.count
                        - Cardinality({j \in hit : st.cs[j].val.first_token_id = MAX}),
             err |-> raises,
             passes |-> st.passes]
       ELSE st

\* One pass of the for loop inside the while loop, from position i on.
RECURSIVE AssignPass(_, _, _, _)
AssignPass(g, st, i, early) ==
    IF i > Len(st.cs) \/ st.err THEN st
    ELSE AssignPass(g, VisitConcept(g, st, i, early), i + 1, early)

\* the while loop going on after a pass without progress, for one pass more
\* than there are concepts
RECURSIVE AssignLoop_unbroken(_, _, _)
AssignLoop_unbroken(g, st, early) ==
    IF st.count > 0 /\ ~st.err
    THEN LET nxt == [AssignPass(g, st, 1, early) EXCEPT !.passes = @ + 1]
         IN IF nxt.err \/ nxt.passes > Len(st.cs) THEN nxt
            ELSE AssignLoop_unbroken(g, nxt, early)
    ELSE st

\* The while loop; passes counts the passes of its for loop.
RECURSIVE AssignLoop(_, _, _)
AssignLoop(g, st, early) ==
    IF st.count > 0 /\ ~st.err
    THEN LET nxt == [AssignPass(g, st, 1, early) EXCEPT !.passes = @ + 1]
         IN IF nxt.err \/ nxt.count = st.count THEN nxt ELSE AssignLoop(g, nxt, early)
    ELSE st

\* the state in which _assign_first_token_ids leaves its loops
AssignRun(g, early) ==
    AssignLoop(g, [cs |-> AssignInit(g.concepts), count |-> CountMax(g.concepts),
                   err |-> FALSE, passes |-> 0], early)

_assign_first_token_ids(g, early) ==
    LET st == AssignRun(g, early)
    IN [g |-> [g EXCEPT !.concepts = st.cs],
        ret |-> IF st.err THEN [raised |-> "AttributeError"] ELSE None]

\* ---------------------------------------------------------------- penman
\* ' ' * n
Spaces(n) == [i \in 1..n |-> " "]

\* '{}'.format(v) for v a str or None
Format(v) == IF v = None THEN chars("None") ELSE v

\* repr_concept printing a referent child like any other
repr_concept_expanding(g, rel, amr) ==
    LET c == DictGet(g.concepts, rel.child_id)
    IN IF amr /\ c.attribute /\ Len(parent_relations(g, rel.child_id, FALSE)) > 0
       THEN chars(c.name)
       ELSE <<"(">> \o rel.child_id \o <<" ", "/", " ">> \o chars(c.name)

\* repr_concept (for a relation that is not referent, the child is a concept)
repr_concept(g, rel, amr) ==
    IF rel.referent THEN rel.child_id
    ELSE LET c == DictGet(g.concepts, rel.child_id)
         IN IF amr /\ c.attribute /\ Len(parent_relations(g, rel.child_id, FALSE)) > 0
            THEN chars(c.name)
            ELSE <<"(">> \o rel.child_id \o <<" ", "/", " ">> \o chars(c.name)

\* a sort by the same key that puts each entry before the earlier entries of
\* equal key
RECURSIVE SortByFirst_unstable(_, _)
SortByFirst_unstable(g, l) ==
    IF Len(l) = 0 THEN <<>>
    ELSE LET rest == SortByFirst_unstable(g, SubSeq(l, 1, Len(l) - 1))
             key(e) == DictGet(g.concepts, e.val.child_id).first_token_id
             x == l[Len(l)]
         IN SelectSeq(rest, LAMBDA y : key(y) < key(x)) \o <<x>>
              \o SelectSeq(rest, LAMBDA y : key(y) >= key(x))

\* sorted(..., key=lambda x: self.get_concept(x[1].child_id).first_token_id):
\* a stable sort of (rid, relation) entries
RECURSIVE SortByFirst(_, _)
SortByFirst(g, l) ==
    IF Len(l) = 0 THEN <<>>
    ELSE LET rest == SortByFirst(g, SubSeq(l, 1, Len(l) - 1))
             key(e) == DictGet(g.concepts, e.val.child_id).first_token_id
             x == l[Len(l)]
         IN SelectSeq(rest, LAMBDA y : key(y) <= key(x)) \o <<x>>
              \o SelectSeq(rest, LAMBDA y : key(y) > key(x))

\* aux(rel, r, indent): the text appended to r, or the exception raised.
\* indent is the number of spaces; path holds the concepts being expanded,
\* and a concept that comes up again below itself never stops recursing
\* (RecursionError). The sort key of a child that is no concept raises
\* AttributeError (get_concept returns None).
RECURSIVE aux(_, _, _, _, _), AuxChildren(_, _, _, _, _, _)
aux(g, rel, indent, amr, path) ==
    IF rel.referent THEN [s |-> repr_concept(g, rel, amr)]
    ELSE IF rel.child_id \notin Keys(g.concepts) THEN [raised |-> "KeyError"]
    ELSE IF rel.child_id \in path THEN [raised |-> "RecursionError"]
    ELSE LET cname == repr_concept(g, rel, amr)
             rels == child_relations(g, rel.child_id, FALSE)
         IN IF \E i \in 1..Len(rels) : rels[i].val.child_id \notin Keys(g.concepts)
            THEN [raised |-> "AttributeError"]
            ELSE LET body == AuxChildren(g, SortByFirst(g, rels), 1,
                                         indent + Len(rel.child_id) + 2, amr,
                                         path \cup {rel.child_id})
                 IN IF "raised" \in DOMAIN body THEN body
                    ELSE [s |-> cname \o body.s
                                 \o (IF Len(cname) > 0 /\ cname[1] = "("
                                     THEN <<")">> ELSE <<>>)]

\* the for loop of aux from the k-th sorted relation on
AuxChildren(g, rels, k, indent, amr, path) ==
    IF k > Len(rels) THEN [s |-> <<>>]
    ELSE LET relation == rels[k].val
             sub == aux(g, relation, indent + Len(chars(relation.label)) + 2, amr, path)
             rest == AuxChildren(g, rels, k + 1, indent, amr, path)
         IN IF "raised" \in DOMAIN sub THEN sub
            ELSE IF "raised" \in DOMAIN rest THEN rest
            ELSE [s |-> <<"\n">> \o Spaces(indent) \o <<":">> \o chars(relation.label)
                         \o <<" ">> \o sub.s \o rest.s]

\* sorted(ts): by the first token index (no two concepts hold the same one)
RECURSIVE SortByKey(_)
SortByKey(l) ==
    IF Len(l) = 0 THEN <<>>
    ELSE LET rest == SortByKey(SubSeq(l, 1, Len(l) - 1))
             x == l[Len(l)]
         IN SelectSeq(rest, LAMBDA y : y.k <= x.k) \o <<x>>
              \o SelectSeq(rest, LAMBDA y : y.k > x.k)

alignments(g) ==
    LET cs == SelectSeq(g.concepts, LAMBDA e : Len(e.val.token_ids) > 0)
        ts == [i \in 1..Len(cs) |->
                 [k |-> cs[i].val.token_ids[1],
                  v |-> cs[i].key \o <<"/">>
                         \o join(<<",">>, [j \in 1..Len(cs[i].val.token_ids) |->
                                             str(cs[i].val.token_ids[j])])]]
        st == SortByKey(ts)
    IN join(<<" ">>, [i \in 1..Len(st) |-> st[i].v])

\* PENMAN_TID, PENMAN_LAST_SAVED, PENMAN_ANNOTATOR, PENMAN_TEXT,
\* PENMAN_ALIGNMENTS
PENMAN_TID == <<"i", "d">>
PENMAN_LAST_SAVED == <<"s", "a", "v", "e", "-", "d", "a", "t", "e">>
PENMAN_ANNOTATOR == <<"a", "n", "n", "o", "t", "a", "t", "o", "r">>
PENMAN_TEXT == <<"s", "n", "t">>
PENMAN_ALIGNMENTS == <<"a", "l", "i", "g", "n">>

\* Graph.penman: [s |-> the string] or [raised |-> the exception]
penman(g, concept_id, amr) ==
    LET rep == aux(g, Relation(NoId, concept_id, "", FALSE), 0, amr, {})
        meta == <<"#", " ", ":", ":">> \o PENMAN_TID \o <<" ">> \o Format(g.tid)
                 \o <<" ", ":", ":">> \o PENMAN_LAST_SAVED \o <<" ">> \o Format(g.last_saved)
                 \o <<" ", ":", ":">> \o PENMAN_ANNOTATOR \o <<" ">> \o Format(g.annotator)
                 \o <<"\n", "#", " ", ":", ":">> \o PENMAN_TEXT \o <<" ">>
                 \o join(<<" ">>, [i \in 1..Len(g.tokens) |-> chars(g.tokens[i])])
                 \o <<"\n">>
        align == alignments(g)
    IN IF "raised" \in DOMAIN rep \/ ~amr THEN rep
       ELSE IF Len(align) > 0
       THEN [s |-> meta \o <<"#", " ", ":", ":">> \o PENMAN_ALIGNMENTS \o <<" ">>
                    \o align \o <<"\n">> \o rep.s]
       ELSE [s |-> meta \o rep.s]

\* [self.penman(root_id, amr) for root_id in self.root_ids] from the k-th
\* root on: the list, or the first exception
RECURSIVE PenmanList(_, _, _, _)
PenmanList(g, roots, k, amr) ==
    IF k > Len(roots) THEN [strs |-> <<>>]
    ELSE LET p == penman(g, roots[k], amr)
             rest == PenmanList(g, roots, k + 1, amr)
         IN IF "raised" \in DOMAIN p THEN p
            ELSE IF "raised" \in DOMAIN rest THEN rest
            ELSE [strs |-> <<p.s>> \o rest.strs]

\* penman_graphs: the first_token_id pass, then one string per root
penman_graphs(g, early, amr) ==
    LET a == _assign_first_token_ids(g, early)
    IN IF a.ret # None THEN a
       ELSE [g |-> a.g, ret |-> PenmanList(a.g, root_ids(a.g), 1, amr)]

\* ------------------------------------------------------------------ JSON
\* json.dumps(self, default=lambda x: x.__dict__): the JSON text, given by
\* the tree it denotes. Every object is written as its __dict__, whatever
\* fields it has; covered_token_ids is written as a list.
json_dumps(g) ==
    [g |-> [g EXCEPT !.covered_token_ids = set(list(g.covered_token_ids))],
     ret |-> [json |-> [g EXCEPT !.covered_token_ids = list(g.covered_token_ids)]]]

Concept_factory(d) == Concept(d.name, d.token_ids, d.attribute)

Relation_factory(d) == Relation(d.parent_id, d.child_id, d.label, d.referent)

\* factory skipping the private fields of the record
factory_public(params) ==
    LET base == Graph(<<>>)
        conv(k) ==
            IF k = "concepts"
            THEN [i \in 1..Len(params[k]) |->
                    [key |-> params[k][i].key, val |-> Concept_factory(params[k][i].val)]]
            ELSE IF k = "relations"
            THEN [i \in 1..Len(params[k]) |->
                    [key |-> params[k][i].key, val |-> Relation_factory(params[k][i].val)]]
            ELSE IF k = "covered_token_ids" THEN set(params[k])
            ELSE params[k]
    IN [k \in DOMAIN base \cup DOMAIN params |->
            IF k \in DOMAIN params /\ k \notin {"_concept_id", "_relation_id"}
            THEN conv(k) ELSE base[k]]

\* Graph.factory(json.loads(s)): a Graph('') whose __dict__ takes every
\* key of the record.
factory(params) ==
    LET base == Graph(<<>>)
        conv(k) ==
            IF k = "concepts"
            THEN [i \in 1..Len(params[k]) |->
                    [key |-> params[k][i].key, val |-> Concept_factory(params[k][i].val)]]
            ELSE IF k = "relations"
            THEN [i \in 1..Len(params[k]) |->
                    [key |-> params[k][i].key, val |-> Relation_factory(params[k][i].val)]]
            ELSE IF k = "covered_token_ids" THEN set(params[k])
            ELSE params[k]
    IN [k \in DOMAIN base \cup DOMAIN params |->
            IF k \in DOMAIN params THEN conv(k) ELSE base[k]]

\* -------------------------------------------------------------- OffsetMap
Offset(begin, end) == [begin |-> begin, end |-> end]

\* The loop of OffsetMap.__init__ from token i (0-based) on.
RECURSIVE OffsetMapLoop(_, _, _, _)
OffsetMapLoop(tokens, i, prev, om) ==
    IF i >= Len(tokens) THEN om
    ELSE LET begin == prev
             end == begin + Len(chars(tokens[i + 1]))
         IN OffsetMapLoop(tokens, i + 1, end + 1,
                [om EXCEPT !.begin_offset_to_id = DictSet(@, begin, i),
                           !.end_offset_to_id = DictSet(@, end, i),
                           !.id_to_offset = Append(@, Offset(begin, end))])

OffsetMap(tokens) ==
    OffsetMapLoop(tokens, 0, 0,
        [tokens |-> tokens,
         text |-> join(<<" ">>, [i \in 1..Len(tokens) |-> chars(tokens[i])]),
         begin_offset_to_id |-> <<>>, end_offset_to_id |-> <<>>, id_to_offset |-> <<>>])

\* self.text[i] for 0 <= i < len(self.text)
TextAt(om, i) == om.text[i + 1]

adjust_begin(om, offset) ==
    IF offset = 0 \/ TextAt(om, offset - 1) = " " THEN offset
    ELSE IF TextAt(om, offset) = " " THEN offset + 1
    ELSE SetMax({i \in (-1)..(offset - 1) : i < 0 \/ TextAt(om, i) = " "}) + 1

\* adjust_end without the test of the character before the offset
adjust_end_forward(om, offset) ==
    IF offset = Len(om.text) \/ TextAt(om, offset) = " " THEN offset
    ELSE SetMin({i \in (offset + 1)..Len(om.text) :
                    i = Len(om.text) \/ TextAt(om, i) = " "})

adjust_end(om, offset) ==
    IF offset = Len(om.text) \/ TextAt(om, offset) = " " THEN offset
    ELSE IF TextAt(om, offset - 1) = " " THEN offset - 1
    ELSE SetMin({i \in (offset + 1)..Len(om.text) :
                    i = Len(om.text) \/ TextAt(om, i) = " "})

\* OffsetMap.token_ids; a dict lookup of an absent key raises KeyError
OffsetMap_token_ids(om, offset) ==
    IF /\ 0 <= offset.begin /\ offset.begin < Len(om.text)
       /\ 0 < offset.end /\ offset.end <= Len(om.text)
    THEN LET begin == adjust_begin(om, offset.begin)
             end == adjust_end(om, offset.end)
         IN IF begin < end
            THEN IF begin \in Keys(om.begin_offset_to_id) /\ end \in Keys(om.end_offset_to_id)
                 THEN [indices |-> DictGet(om.begin_offset_to_id, begin)
                                    .. DictGet(om.end_offset_to_id, end)]
                 ELSE [raised |-> "KeyError"]
            ELSE [indices |-> {}]
    ELSE [indices |-> {}]

\* ----------------------------------------------------------------- clone
\* A second Graph object is the record of its own __dict__ together with the
\* set of fields whose value is the very object (dict, set or list) the
\* original holds: what is done to such a field through one of the two
\* graphs is done to the other.
MutableFields == {"tokens", "concepts", "relations", "covered_token_ids"}

\* copy.deepcopy: every object reachable from the argument is copied
deepcopy(d) == [dict |-> d, shared |-> {}]

\* copy.copy: a new dict with the same values
copy(d) == [dict |-> d, shared |-> MutableFields \cap DOMAIN d]

\* clone with amr.__dict__ = copy.copy(self.__dict__)
clone_shallow(g) == [g |-> g, ret |-> [graph |-> copy(g)]]

clone(g) == [g |-> g, ret |-> [graph |-> deepcopy(g)]]

\* the __dict__ of the second object as seen through it
Deref(o, g) ==
    [k \in DOMAIN o.dict |-> IF k \in o.shared THEN g[k] ELSE o.dict[k]]

\* --------------------------------------------------------- penman_reader
\* str methods on strings given as sequences of characters; the only
\* whitespace inside a line is the space.
RECURSIVE splitlines(_)
splitlines(s) ==
    IF Len(s) = 0 THEN <<>>
    ELSE IF \E i \in 1..Len(s) : s[i] = "\n"
    THEN LET i == SetMin({j \in 1..Len(s) : s[j] = "\n"})
         IN <<SubSeq(s, 1, i - 1)>> \o splitlines(SubSeq(s, i + 1, Len(s)))
    ELSE <<s>>

strip(s) ==
    LET keep == {i \in 1..Len(s) : s[i] # " "}
    IN IF keep = {} THEN <<>> ELSE SubSeq(s, SetMin(keep), SetMax(keep))

\* s.split()
RECURSIVE split(_)
split(s) ==
    LET t == strip(s)
    IN IF Len(t) = 0 THEN <<>>
       ELSE IF \E i \in 1..Len(t) : t[i] = " "
       THEN LET i == SetMin({j \in 1..Len(t) : t[j] = " "})
            IN <<SubSeq(t, 1, i - 1)>> \o split(SubSeq(t, i + 1, Len(t)))
       ELSE <<t>>

\* RE_LRB.sub('(', ln): the spaces that follow a '(' are dropped
sub_LRB(ln) ==
    LET drop == {i \in 1..Len(ln) :
                    /\ ln[i] = " "
                    /\ \E j \in 1..(i - 1) :
                          ln[j] = "(" /\ \A k \in (j + 1)..i : ln[k] = " "}
        idx == sorted((1..Len(ln)) \ drop)
    IN [k \in 1..Len(idx) |-> ln[idx[k]]]

\* RE_RRB.sub(')', ln): the spaces that precede a ')' are dropped
sub_RRB(ln) ==
    LET drop == {i \in 1..Len(ln) :
                    /\ ln[i] = " "
                    /\ \E j \in (i + 1)..Len(ln) :
                          ln[j] = ")" /\ \A k \in i..(j - 1) : ln[k] = " "}
        idx == sorted((1..Len(ln)) \ drop)
    IN [k \in 1..Len(idx) |-> ln[idx[k]]]

trim_line(ln) == sub_RRB(sub_LRB(strip(ln)))

\* a str value that may be None is [s |-> the characters] or None
Str(s) == [s |-> s]

Truthy(v) == v # None /\ v # [true |-> FALSE] /\ ("s" \in DOMAIN v => Len(v.s) > 0)

DynamicStack == [concept_stack |-> <<>>, cid_map |-> <<>>, relation |-> None]

\* the remaining tokens of a comment line, with the key and values so far
\* (the key '' and no key are both false)
RECURSIVE parse_comments(_, _, _, _)
parse_comments(cdict, ts, key, values) ==
    LET flush == IF Len(key) > 0
                 THEN DictSet(cdict, key,
                              IF Len(values) > 0 THEN Str(join(<<" ">>, values))
                              ELSE [true |-> TRUE])
                 ELSE cdict
    IN IF Len(ts) = 0 THEN flush
       ELSE LET t == ts[1]
            IN IF Len(t) >= 2 /\ t[1] = ":" /\ t[2] = ":"
               THEN parse_comments(flush, Tail(ts), SubSeq(t, 3, Len(t)), <<>>)
               ELSE parse_comments(cdict, Tail(ts), key, Append(values, t))

\* create_graph: Graph(text, tid, annotator, last_saved); text.split() raises
\* AttributeError when the comment gave the key without a value (True)
create_graph(cdict) ==
    LET text == IF PENMAN_TEXT \in Keys(cdict) THEN DictGet(cdict, PENMAN_TEXT) ELSE Str(<<>>)
        amr_annotator == <<"a", "m", "r", "-">> \o PENMAN_ANNOTATOR
    IN IF "s" \notin DOMAIN text THEN [raised |-> "AttributeError"]
       ELSE [graph |-> [Graph(split(text.s)) EXCEPT
                !.tid = DictGet(cdict, PENMAN_TID),
                !.annotator = IF PENMAN_ANNOTATOR \in Keys(cdict)
                              THEN DictGet(cdict, PENMAN_ANNOTATOR)
                              ELSE DictGet(cdict, amr_annotator),
                !.last_saved = DictGet(cdict, PENMAN_LAST_SAVED)]]

\* get_concept_name: the token without its trailing ')' and their number
get_concept_name(cname) ==
    LET js == {j \in 1..Len(cname) : cname[j] # ")"}
    IN IF js = {} THEN [cname |-> None, nrrb |-> -1]
       ELSE [cname |-> Str(SubSeq(cname, 1, SetMax(js))), nrrb |-> Len(cname) - SetMax(js)]

\* The state of populate_graph is [graph, dstack, printed, status], status
\* being "ok", "failed" (False was returned) or the name of an exception.
Failed(st, lid, msg) ==
    [st EXCEPT !.status = "failed", !.printed = Append(@, [line |-> lid, msg |-> msg])]

\* handle_relation adding every relation without the referent flag
handle_relation_plain(st, lid, cid, referent) ==
    IF Truthy(st.dstack.relation)
    THEN IF Len(st.dstack.concept_stack) = 0
         THEN Failed(st, lid, "missing parent concept")
         ELSE LET pid == st.dstack.concept_stack[Len(st.dstack.concept_stack)]
              IN [st EXCEPT
                    !.graph = add_relation(@, pid, cid, st.dstack.relation.s, FALSE).g,
                    !.dstack.relation = None]
    ELSE st

\* handle_relation dropping a label that has no parent
handle_relation_rootless(st, lid, cid, referent) ==
    IF Truthy(st.dstack.relation)
    THEN IF Len(st.dstack.concept_stack) = 0
         THEN [st EXCEPT !.dstack.relation = None]
         ELSE LET pid == st.dstack.concept_stack[Len(st.dstack.concept_stack)]
              IN [st EXCEPT
                    !.graph = add_relation(@, pid, cid, st.dstack.relation.s, referent).g,
                    !.dstack.relation = None]
    ELSE st

handle_relation(st, lid, cid, referent) ==
    IF Truthy(st.dstack.relation)
    THEN IF Len(st.dstack.concept_stack) = 0
         THEN Failed(st, lid, "missing parent concept")
         ELSE LET pid == st.dstack.concept_stack[Len(st.dstack.concept_stack)]
              IN [st EXCEPT
                    !.graph = add_relation(@, pid, cid, st.dstack.relation.s, referent).g,
                    !.dstack.relation = None]
    ELSE st

\* for _ in range(nrrb): dstack.pop_concept()
pop_concepts(st, nrrb) ==
    IF nrrb > Len(st.dstack.concept_stack) THEN [st EXCEPT !.status = "IndexError"]
    ELSE [st EXCEPT !.dstack.concept_stack = SubSeq(@, 1, Len(@) - nrrb)]

\* The while loop of populate_graph from token i (here 1-based) on.
RECURSIVE populate_graph(_, _, _, _)
populate_graph(st, lid, ts, i) ==
    IF i > Len(ts) \/ st.status # "ok" THEN st
    ELSE LET t == ts[i]
         IN IF t[1] = "("
            THEN IF ~(i + 2 <= Len(ts) /\ ts[i + 1] = <<"/">>)
                 THEN Failed(st, lid, "invalid concept definition")
                 ELSE LET org_cid == Tail(t)
                          nm == get_concept_name(ts[i + 2])
                          added == add_concept(st.graph, nm.cname.s, {}, FALSE)
                          new_cid == added.ret.id
                          linked == handle_relation([st EXCEPT !.graph = added.g],
                                                    lid, new_cid, FALSE)
                          pushed == [linked EXCEPT
                                       !.dstack.concept_stack = Append(@, new_cid),
                                       !.dstack.cid_map = DictSet(@, org_cid, new_cid)]
                      IN IF nm.cname = None
                         THEN Failed(st, lid, "invalid concept definition")
                         ELSE IF linked.status # "ok" THEN linked
                         ELSE populate_graph(pop_concepts(pushed, nm.nrrb), lid, ts, i + 3)
            ELSE IF t[1] = ":"
            THEN populate_graph([st EXCEPT !.dstack.relation = Str(Tail(t))], lid, ts, i + 1)
            ELSE LET nm == get_concept_name(t)
                     known == nm.cname # None /\ nm.cname.s \in Keys(st.dstack.cid_map)
                     added == add_concept(st.graph, nm.cname.s, {}, TRUE)
                     linked == IF known
                               THEN handle_relation(st, lid,
                                        DictGet(st.dstack.cid_map, nm.cname.s), TRUE)
                               ELSE handle_relation([st EXCEPT !.graph = added.g],
                                                    lid, added.ret.id, FALSE)
                 IN IF nm.cname = None
                    THEN Failed(st, lid, "invalid concept definition")
                    ELSE IF linked.status # "ok" THEN linked
                    ELSE populate_graph(pop_concepts(linked, nm.nrrb), lid, ts, i + 1)


\* s.split(sep) for a one-character separator
RECURSIVE split_on(_, _)
split_on(s, sep) ==
    IF \E i \in 1..Len(s) : s[i] = sep
    THEN LET i == SetMin({j \in 1..Len(s) : s[j] = sep})
         IN <<SubSeq(s, 1, i - 1)>> \o split_on(SubSeq(s, i + 1, Len(s)), sep)
    ELSE <<s>>

\* int(s) raises ValueError unless s is a numeral (here: of decimal digits)
IsNumeral(s) == Len(s) > 0 /\ \A i \in 1..Len(s) : \E d \in 1..10 : DigitChars[d] = s[i]

\* The loop of to_alignments over the tokens ts, with the dict d so far:
\* [dict |-> d], None, or [raised |-> the exception].
RECURSIVE AlignmentLoop(_, _)
AlignmentLoop(ts, d) ==
    IF Len(ts) = 0 THEN [dict |-> d]
    ELSE LET t == ts[1]
             has == \E i \in 1..Len(t) : t[i] = "/"
             idx == SetMin({i \in 1..Len(t) : t[i] = "/"})
             parts == split_on(SubSeq(t, idx + 1, Len(t)), ",")
         IN IF ~has THEN None
            ELSE IF \E k \in 1..Len(parts) : ~IsNumeral(parts[k])
            THEN [raised |-> "ValueError"]
            ELSE AlignmentLoop(Tail(ts),
                    DictSet(d, SubSeq(t, 1, idx - 1),
                            [k \in 1..Len(parts) |-> int(parts[k])]))

to_alignments(comments) ==
    LET v == DictGet(comments, PENMAN_ALIGNMENTS)
    IN IF v = None THEN [dict |-> <<>>]
       ELSE IF "s" \notin DOMAIN v THEN [raised |-> "AttributeError"]
       ELSE AlignmentLoop(split(v.s), <<>>)

\* the first loop of finalize_graph removing the attribute with its
\* relations instead of redirecting them
RECURSIVE FinalizeAttributes_cascading(_, _, _, _)
FinalizeAttributes_cascading(g, cs, k, cid_map) ==
    IF k > Len(cs) THEN g
    ELSE IF cs[k].val.attribute /\ cs[k].val.name \in Keys(cid_map)
    THEN FinalizeAttributes_cascading(remove_concept(g, cs[k].key, TRUE).g,
                                      cs, k + 1, cid_map)
    ELSE FinalizeAttributes_cascading(g, cs, k + 1, cid_map)

\* the first loop of finalize_graph removing the attribute and leaving its
\* relations as they are
RECURSIVE FinalizeAttributes_unlinked(_, _, _, _)
FinalizeAttributes_unlinked(g, cs, k, cid_map) ==
    IF k > Len(cs) THEN g
    ELSE IF cs[k].val.attribute /\ cs[k].val.name \in Keys(cid_map)
    THEN FinalizeAttributes_unlinked(remove_concept(g, cs[k].key, FALSE).g,
                                     cs, k + 1, cid_map)
    ELSE FinalizeAttributes_unlinked(g, cs, k + 1, cid_map)

\* The first loop of finalize_graph over the snapshot cs of g.concepts, from
\* entry k on.
RECURSIVE FinalizeAttributes(_, _, _, _)
FinalizeAttributes(g, cs, k, cid_map) ==
    IF k > Len(cs) THEN g
    ELSE LET cid == cs[k].key
             name == cs[k].val.name
             new_cid == DictGet(cid_map, name)
             moved == [i \in 1..Len(g.relations) |->
                         IF g.relations[i].val.child_id = cid
                         THEN [key |-> g.relations[i].key,
                               val |-> [g.relations[i].val EXCEPT
                                          !.child_id = new_cid, !.referent = TRUE]]
                         ELSE g.relations[i]]
         IN IF cs[k].val.attribute /\ name \in Keys(cid_map)
            THEN FinalizeAttributes(
                    remove_concept([g EXCEPT !.relations = moved], cid, FALSE).g,
                    cs, k + 1, cid_map)
            ELSE FinalizeAttributes(g, cs, k + 1, cid_map)

\* The second loop of finalize_graph over the entries al of the alignments.
RECURSIVE FinalizeAlignments(_, _, _)
FinalizeAlignments(g, al, cid_map) ==
    IF Len(al) = 0 THEN g
    ELSE LET new_cid == IF al[1].key \in Keys(cid_map)
                        THEN DictGet(cid_map, al[1].key) ELSE <<>>
             c == DictGet(g.concepts, new_cid)
         IN IF new_cid \in Keys(g.concepts)
            THEN FinalizeAlignments(
                    [g EXCEPT !.covered_token_ids = @ \cup set(al[1].val),
                              !.concepts = DictSet(@, new_cid,
                                                   [c EXCEPT !.token_ids = al[1].val])],
                    Tail(al), cid_map)
            ELSE FinalizeAlignments(g, Tail(al), cid_map)

\* finalize_graph: [graph |-> g] or [raised |-> the exception]
finalize_graph(g, dstack, comments) ==
    LET g1 == FinalizeAttributes(g, g.concepts, 1, dstack.cid_map)
        al == to_alignments(comments)
    IN IF al = None THEN [raised |-> "AttributeError"]
       ELSE IF "raised" \in DOMAIN al THEN al
       ELSE [graph |-> FinalizeAlignments(g1, al.dict, dstack.cid_map)]

\* The state of the for loop of penman_reader: graph, comments, dstack and
\* graphs, the messages printed, the number of lines read, and the outcome:
\* [running |-> TRUE] inside the loop, [ret |-> None or [graphs |-> the
\* list]] once it has returned, [raised |-> the exception] once it has raised.
Running == [running |-> TRUE]

Reader ==
    [graph |-> None, comments |-> <<>>, dstack |-> DynamicStack, graphs |-> <<>>,
     printed |-> <<>>, lid |-> 0, result |-> Running]

\* the body of the for loop returning the documents read so far on an error
LineStep_partial(st, raw) ==
    LET lid == st.lid + 1
        line == trim_line(raw)
        made == IF st.graph = None THEN create_graph(st.comments)
                ELSE [graph |-> st.graph]
        p == populate_graph([graph |-> made.graph, dstack |-> st.dstack,
                             printed |-> st.printed, status |-> "ok"],
                            lid, split(line), 1)
        f == finalize_graph(p.graph, p.dstack, st.comments)
        nxt == [st EXCEPT !.lid = lid]
    IN IF Len(line) = 0 THEN nxt
       ELSE IF line[1] = "#"
       THEN [nxt EXCEPT !.comments = parse_comments(@, split(line), <<>>, <<>>)]
       ELSE IF st.graph = None /\ line[1] # "("
       THEN [nxt EXCEPT !.result = [ret |-> [graphs |-> st.graphs]],
                        !.printed = Append(@, [line |-> lid,
                                               msg |-> "missing concept definition"])]
       ELSE IF "raised" \in DOMAIN made THEN [nxt EXCEPT !.result = made]
       ELSE IF p.status = "failed"
       THEN [nxt EXCEPT !.result = [ret |-> [graphs |-> st.graphs]], !.printed = p.printed]
       ELSE IF p.status # "ok" THEN [nxt EXCEPT !.result = [raised |-> p.status]]
       ELSE IF Len(p.dstack.concept_stack) > 0
       THEN [nxt EXCEPT !.graph = p.graph, !.dstack = p.dstack]
       ELSE IF "raised" \in DOMAIN f THEN [nxt EXCEPT !.result = f]
       ELSE [nxt EXCEPT !.graph = None, !.comments = <<>>, !.dstack = DynamicStack,
                        !.graphs = Append(@, f.graph)]

\* the body of the for loop keeping the local names and the pending label
\* from one document to the next
LineStep_sticky(st, raw) ==
    LET lid == st.lid + 1
        line == trim_line(raw)
        made == IF st.graph = None THEN create_graph(st.comments)
                ELSE [graph |-> st.graph]
        p == populate_graph([graph |-> made.graph, dstack |-> st.dstack,
                             printed |-> st.printed, status |-> "ok"],
                            lid, split(line), 1)
        f == finalize_graph(p.graph, p.dstack, st.comments)
        nxt == [st EXCEPT !.lid = lid]
    IN IF Len(line) = 0 THEN nxt
       ELSE IF line[1] = "#"
       THEN [nxt EXCEPT !.comments = parse_comments(@, split(line), <<>>, <<>>)]
       ELSE IF st.graph = None /\ line[1] # "("
       THEN [nxt EXCEPT !.result = [ret |-> None],
                        !.printed = Append(@, [line |-> lid,
                                               msg |-> "missing concept definition"])]
       ELSE IF "raised" \in DOMAIN made THEN [nxt EXCEPT !.result = made]
       ELSE IF p.status = "failed"
       THEN [nxt EXCEPT !.result = [ret |-> None], !.printed = p.printed]
       ELSE IF p.status # "ok" THEN [nxt EXCEPT !.result = [raised |-> p.status]]
       ELSE IF Len(p.dstack.concept_stack) > 0
       THEN [nxt EXCEPT !.graph = p.graph, !.dstack = p.dstack]
       ELSE IF "raised" \in DOMAIN f THEN [nxt EXCEPT !.result = f]
       ELSE [nxt EXCEPT !.graph = None, !.comments = <<>>,
                        !.graphs = Append(@, f.graph)]

\* The body of the for loop for the line raw (the line number is st.lid + 1).
LineStep(st, raw) ==
    LET lid == st.lid + 1
        line == trim_line(raw)
        made == IF st.graph = None THEN create_graph(st.comments)
                ELSE [graph |-> st.graph]
        p == populate_graph([graph |-> made.graph, dstack |-> st.dstack,
                             printed |-> st.printed, status |-> "ok"],
                            lid, split(line), 1)
        f == finalize_graph(p.graph, p.dstack, st.comments)
        nxt == [st EXCEPT !.lid = lid]
    IN IF Len(line) = 0 THEN nxt
       ELSE IF line[1] = "#"
       THEN [nxt EXCEPT !.comments = parse_comments(@, split(line), <<>>, <<>>)]
       ELSE IF st.graph = None /\ line[1] # "("
       THEN [nxt EXCEPT !.result = [ret |-> None],
                        !.printed = Append(@, [line |-> lid,
                                               msg |-> "missing concept definition"])]
       ELSE IF "raised" \in DOMAIN made THEN [nxt EXCEPT !.result = made]
       ELSE IF p.status = "failed"
       THEN [nxt EXCEPT !.result = [ret |-> None], !.printed = p.printed]
       ELSE IF p.status # "ok" THEN [nxt EXCEPT !.result = [raised |-> p.status]]
       ELSE IF Len(p.dstack.concept_stack) > 0
       THEN [nxt EXCEPT !.graph = p.graph, !.dstack = p.dstack]
       ELSE IF "raised" \in DOMAIN f THEN [nxt EXCEPT !.result = f]
       ELSE [nxt EXCEPT !.graph = None, !.comments = <<>>, !.dstack = DynamicStack,
                        !.graphs = Append(@, f.graph)]

\* The end of the loop: return graphs.
EndOfFile(st) == [st EXCEPT !.result = [ret |-> [graphs |-> st.graphs]]]

RECURSIVE ReadLines(_, _)
ReadLines(st, lines) ==
    IF st.result # Running THEN st
    ELSE IF Len(lines) = 0 THEN EndOfFile(st)
    ELSE ReadLines(LineStep(st, lines[1]), Tail(lines))

\* penman_reader(input_file) for a file with the given content:
\* [ret |-> None or [graphs |-> the list], printed |-> the messages] or
\* [raised |-> the exception]
penman_reader(content) ==
    LET st == ReadLines(Reader, splitlines(content))
    IN IF "raised" \in DOMAIN st.result THEN st.result
       ELSE [ret |-> st.result.ret, printed |-> st.printed]

\* json_to_penman.convert for one graph: what is written to the output file
convert(g, early) ==
    LET p == penman_graphs(g, early, TRUE)
    IN IF Len(g.concepts) = 0 THEN [g |-> g, ret |-> [written |-> <<>>]]
       ELSE IF "raised" \in DOMAIN p.ret THEN p
       ELSE [g |-> p.g,
             ret |-> [written |-> join(<<"\n">>, p.ret.strs) \o <<"\n", "\n">>]]

\* is_ancestor: the set of results the call can have, [bool |-> b] or
\* [raised |-> "RecursionError"]. parent_ids is a set of strings, whose
\* iteration order is not fixed, so the loop may take the parents in any
\* order. path holds the second arguments of the calls on the stack: a call
\* that comes up again below itself repeats for ever, which ends with
\* Python's RecursionError.
RECURSIVE AncestorCall(_, _, _, _, _), AncestorLoop(_, _, _, _, _)
AncestorCall(g, concept_id1, concept_id2, ignore_referent, path) ==
    LET parent_ids == get_parent_ids(g, concept_id2, ignore_referent)
    IN IF concept_id1 \in parent_ids THEN {[bool |-> TRUE]}
       ELSE AncestorLoop(g, concept_id1, parent_ids, ignore_referent,
                         path \cup {concept_id2})

\* the for loop of is_ancestor over the parents not yet taken
AncestorLoop(g, concept_id1, parent_ids, ignore_referent, path) ==
    IF parent_ids = {} THEN {[bool |-> FALSE]}
    ELSE UNION {
        LET sub == IF parent_id \in path THEN {[raised |-> "RecursionError"]}
                   ELSE AncestorCall(g, concept_id1, parent_id, ignore_referent, path)
        IN (sub \ {[bool |-> FALSE]})
           \cup (IF [bool |-> FALSE] \in sub
                 THEN AncestorLoop(g, concept_id1, parent_ids \ {parent_id},
                                   ignore_referent, path)
                 ELSE {}) : parent_id \in parent_ids}

is_ancestor(g, concept_id1, concept_id2, ignore_referent) ==
    AncestorCall(g, concept_id1, concept_id2, ignore_referent, {})


\* ------------------------------------------------------- GraphAnnotator
\* GraphAnnotator.__init__: the attributes of the window that the editing
\* handlers read and write. offset_maps[i] is OffsetMap(graphs[i].tokens)
\* from menu_file_open on and is computed where it is used; a selected
\* concept is [cid |-> its ID, begin |-> the cursor position].
GraphAnnotator ==
    [filename |-> "", tid |-> -1, graphs |-> <<>>,
     selected_parent |-> None, selected_child |-> None, selected_text_spans |-> {}]

current_graph(s) ==
    IF 0 <= s.tid /\ s.tid < Len(s.graphs) THEN s.graphs[s.tid + 1] ELSE None

select_annotation(s, tid) ==
    IF 0 <= tid /\ tid < Len(s.graphs)
    THEN [s EXCEPT !.tid = tid, !.selected_parent = None, !.selected_child = None,
                   !.selected_text_spans = {}]
    ELSE s

\* menu_file_save at the time now (what it writes is json_dumps of every graph)
menu_file_save(s, now) ==
    IF s.filename = "" THEN s
    ELSE [s EXCEPT !.graphs[s.tid + 1].last_saved = now]

\* menu_select_text_span adding the highlighted tokens whether covered or not
menu_select_text_span_covered(s, offset) ==
    LET t == OffsetMap_token_ids(OffsetMap(current_graph(s).tokens), offset)
    IN IF offset = None THEN [s |-> s, ret |-> None]
       ELSE IF "raised" \in DOMAIN t THEN [s |-> s, ret |-> t]
       ELSE IF t.indices = {} THEN [s |-> s, ret |-> None]
       ELSE [s |-> [s EXCEPT !.selected_text_spans = @ \cup t.indices], ret |-> None]

\* menu_select_text_span for the highlighted offset (None: no text is
\* highlighted): [s |-> the window after it, ret |-> None or the exception]
menu_select_text_span(s, offset) ==
    LET t == OffsetMap_token_ids(OffsetMap(current_graph(s).tokens), offset)
        token_ids == t.indices \ current_graph(s).covered_token_ids
    IN IF offset = None THEN [s |-> s, ret |-> None]
       ELSE IF "raised" \in DOMAIN t THEN [s |-> s, ret |-> t]
       ELSE IF token_ids = {} THEN [s |-> s, ret |-> None]
       ELSE [s |-> [s EXCEPT !.selected_text_spans = @ \cup token_ids], ret |-> None]


\* ------------------------------------------------------------------ Init
Call(op, id, token_ids, flag) ==
    [op |-> op, id |-> id, token_ids |-> token_ids, flag |-> flag]

Init ==
    /\ graph = Graph(Text)
    /\ call = Call("Graph", NoId, {}, FALSE)
    /\ ret = None
    /\ issued = {}
    /\ cloned = None
    /\ reader = Reader
    /\ session = GraphAnnotator

\* --------------------------------------------------------------- actions
\* One action per method: the call is recorded, the object and the returned
\* value are the method's.
Apply(r) ==
    /\ graph' = r.g
    /\ ret' = r.ret
    /\ UNCHANGED <<cloned, reader, session>>

Issue(r) ==
    issued' = IF "id" \in DOMAIN r.ret THEN issued \cup {r.ret.id} ELSE issued

GetConcept(concept_id) ==
    /\ call' = Call("get_concept", concept_id, {}, FALSE)
    /\ Apply(get_concept(graph, concept_id))
    /\ UNCHANGED issued

AddConcept(name, token_ids, attribute) ==
    LET r == add_concept(graph, name, token_ids, attribute)
    IN /\ r.g._concept_id <= MaxConceptId
       /\ call' = Call("add_concept", NoId, token_ids, attribute)
       /\ Apply(r)
       /\ Issue(r)

AddTokenIds(concept_id, token_ids) ==
    /\ call' = Call("add_token_ids", concept_id, {}, FALSE)
    /\ Apply(add_token_ids(graph, concept_id, token_ids))
    /\ UNCHANGED issued

RemoveTokenIds(concept_id, token_ids) ==
    /\ call' = Call("remove_token_ids", concept_id, {}, FALSE)
    /\ Apply(remove_token_ids(graph, concept_id, token_ids))
    /\ UNCHANGED issued

UpdateConcept(concept_id, name) ==
    /\ call' = Call("update_concept", concept_id, {}, FALSE)
    /\ Apply(update_concept(graph, concept_id, name))
    /\ UNCHANGED issued

RemoveConcept(concept_id, remove_relations) ==
    /\ call' = Call("remove_concept", concept_id, {}, remove_relations)
    /\ Apply(remove_concept(graph, concept_id, remove_relations))
    /\ UNCHANGED issued

GetRelation(relation_id) ==
    /\ call' = Call("get_relation", relation_id, {}, FALSE)
    /\ Apply(get_relation(graph, relation_id))
    /\ UNCHANGED issued

AddRelation(parent_id, child_id, label, referent) ==
    LET r == add_relation(graph, parent_id, child_id, label, referent)
    IN /\ r.g._relation_id <= MaxRelationId
       /\ call' = Call("add_relation", NoId, {}, referent)
       /\ Apply(r)
       /\ Issue(r)

UpdateRelation(relation_id, label) ==
    /\ call' = Call("update_relation", relation_id, {}, FALSE)
    /\ Apply(update_relation(graph, relation_id, label))
    /\ UNCHANGED issued

RemoveRelation(relation_id) ==
    /\ call' = Call("remove_relation", relation_id, {}, FALSE)
    /\ Apply(remove_relation(graph, relation_id))
    /\ UNCHANGED issued

RootIds ==
    /\ call' = Call("root_ids", NoId, {}, FALSE)
    /\ Apply([g |-> graph, ret |-> [ids |-> root_ids(graph)]])
    /\ UNCHANGED issued

\* penman_graphs never raises in the first pass unless some relation names a
\* parent that is no concept; only then the order of the set matters.
PenmanGraphs(amr) ==
    \E early \in (IF _assign_first_token_ids(graph, {}).ret = [raised |-> "AttributeError"]
                  THEN SUBSET Keys(graph.concepts) ELSE {{}}) :
        /\ call' = Call("penman_graphs", NoId, {}, amr)
        /\ Apply(penman_graphs(graph, early, amr))
        /\ UNCHANGED issued

\* _assign_first_token_ids alone, as penman_graphs calls it first; the call
\* records the number of passes its while loop made.
AssignFirstTokenIds ==
    \E early \in (IF _assign_first_token_ids(graph, {}).ret = [raised |-> "AttributeError"]
                  THEN SUBSET Keys(graph.concepts) ELSE {{}}) :
        /\ call' = [op |-> "_assign_first_token_ids",
                    passes |-> AssignRun(graph, early).passes]
        /\ Apply(_assign_first_token_ids(graph, early))
        /\ UNCHANGED issued

JsonDumps ==
    /\ call' = Call("json_dumps", NoId, {}, FALSE)
    /\ Apply(json_dumps(graph))
    /\ UNCHANGED issued

\* Graph.factory(json.loads(s)) for the string s that json_dumps has just
\* returned; the loaded object replaces the graph (as opening a saved file).
Factory ==
    /\ call.op = "json_dumps"
    /\ call' = Call("factory", NoId, {}, FALSE)
    /\ graph' = factory(ret.json)
    /\ ret' = None
    /\ UNCHANGED <<issued, cloned, reader, session>>

\* OffsetMap(graph.tokens).token_ids(Offset(begin, end)), as the annotator
\* calls it for the current graph
TokenIdsOf(begin, end) ==
    /\ call' = [op |-> "token_ids", begin |-> begin, end |-> end]
    /\ Apply([g |-> graph,
              ret |-> OffsetMap_token_ids(OffsetMap(graph.tokens), Offset(begin, end))])
    /\ UNCHANGED issued

\* clone(): the new object is kept in cloned, with the number of calls made
\* on either object since
Clone ==
    /\ call' = Call("clone", NoId, {}, FALSE)
    /\ graph' = clone(graph).g
    /\ ret' = None
    /\ cloned' = [obj |-> clone(graph).ret.graph, calls |-> 0]
    /\ UNCHANGED <<issued, reader, session>>

\* A method called on the clone: r is the method applied to the clone's
\* __dict__; the fields the two objects share change in both.
OnClone(op, r) ==
    /\ call' = [op |-> op, on |-> "clone"]
    /\ cloned' = [obj |-> [cloned.obj EXCEPT !.dict = r.g], calls |-> cloned.calls + 1]
    /\ graph' = [k \in DOMAIN graph |->
                    IF k \in cloned.obj.shared /\ k \in DOMAIN r.g THEN r.g[k] ELSE graph[k]]
    /\ ret' = r.ret
    /\ UNCHANGED <<issued, reader, session>>

\* A method called on the original while the clone exists.
OnOriginal(op, r) ==
    /\ call' = [op |-> op, on |-> "original"]
    /\ cloned' = [cloned EXCEPT !.calls = @ + 1]
    /\ graph' = r.g
    /\ ret' = r.ret
    /\ UNCHANGED <<issued, reader, session>>

\* json_to_penman.convert for the graph: ret holds the text written to the
\* output file.
Convert ==
    /\ call' = [op |-> "convert"]
    /\ Apply(convert(graph, TRUE))
    /\ UNCHANGED issued

\* penman_reader on the file convert has just written: the whole loop and
\* its return.
PenmanReader ==
    /\ call.op = "convert"
    /\ "written" \in DOMAIN ret
    /\ call' = [op |-> "penman_reader"]
    /\ reader' = ReadLines(Reader, splitlines(ret.written))
    /\ ret' = reader'.result
    /\ UNCHANGED <<graph, issued, cloned, session>>

\* One iteration of the for loop of penman_reader: the next line of the file
\* is line.
ReadLine(line) ==
    /\ reader.result = Running
    /\ reader.lid < MaxLines
    /\ call' = [op |-> "read_line", line |-> line]
    /\ reader' = LineStep(reader, line)
    /\ ret' = reader'.result
    /\ UNCHANGED <<graph, issued, cloned, session>>

\* The file ends: the loop of penman_reader is left and graphs is returned.
EndOfInput ==
    /\ reader.result = Running
    /\ call' = [op |-> "end_of_file"]
    /\ reader' = EndOfFile(reader)
    /\ ret' = reader'.result
    /\ UNCHANGED <<graph, issued, cloned, session>>

\* penman_to_json.convert takes up the graphs penman_reader has returned: the
\* k-th of them becomes the graph.
Adopt(k) ==
    /\ "ret" \in DOMAIN reader.result
    /\ reader.result.ret # None
    /\ k \in 1..Len(reader.result.ret.graphs)
    /\ call' = [op |-> "adopt", k |-> k]
    /\ graph' = reader.result.ret.graphs[k]
    /\ ret' = None
    /\ UNCHANGED <<issued, cloned, reader, session>>

\* The mutating methods, called on the object whose __dict__ is d.
Mutate(d, On(_, _)) ==
    \/ \E token_ids \in {{}, {0, 1}} :
          On("add_concept", add_concept(d, "boy", token_ids, FALSE))
    \/ \E parent_id \in Keys(d.concepts), child_id \in Keys(d.concepts) :
          On("add_relation", add_relation(d, parent_id, child_id, "ARG0", FALSE))
    \/ \E cid \in Keys(d.concepts) :
          On("add_token_ids", add_token_ids(d, cid, {0, 1}))
    \/ \E cid \in Keys(d.concepts) :
          On("remove_token_ids", remove_token_ids(d, cid, {0, 1}))
    \/ \E cid \in Keys(d.concepts) :
          On("update_concept", update_concept(d, cid, "The"))
    \/ \E cid \in Keys(d.concepts) :
          On("remove_concept", remove_concept(d, cid, TRUE))
    \/ \E rid \in Keys(d.relations) :
          On("update_relation", update_relation(d, rid, "I"))
    \/ \E rid \in Keys(d.relations) :
          On("remove_relation", remove_relation(d, rid))

IsAncestor(concept_id1, concept_id2, ignore_referent) ==
    \E r \in is_ancestor(graph, concept_id1, concept_id2, ignore_referent) :
        /\ call' = [op |-> "is_ancestor", concept_id1 |-> concept_id1,
                    concept_id2 |-> concept_id2, flag |-> ignore_referent]
        /\ ret' = r
        /\ UNCHANGED <<graph, issued, cloned, reader, session>>


\* The concept IDs that the graphs of a session have issued, and how many a
\* session issues at most.
MaxCreated == 1

RECURSIVE CreatedFrom(_, _)
CreatedFrom(s, i) ==
    IF i > Len(s.graphs) THEN 0 ELSE s.graphs[i]._concept_id + CreatedFrom(s, i + 1)

Created(s) == CreatedFrom(s, 1)

\* The handlers of GraphAnnotator. What the user has highlighted in the text
\* (offset), chosen in a dialog (name, tid, ok) or highlighted in the graph
\* (sel, selection), and the time of a save (now), are the arguments.
Handle(op, r) ==
    /\ call' = op
    /\ session' = r.s
    /\ ret' = r.ret
    /\ UNCHANGED <<graph, issued, cloned, reader>>

MenuSelectTextSpan(offset) ==
    Handle([op |-> "menu_select_text_span"],
           menu_select_text_span(session, offset))

MenuDeselectTextSpan(offset) ==
    LET t == OffsetMap_token_ids(OffsetMap(current_graph(session).tokens), offset)
        inter == IF offset = None THEN session.selected_text_spans
                 ELSE session.selected_text_spans \cap t.indices
    IN Handle([op |-> "menu_deselect_text_span"],
              IF offset # None /\ "raised" \in DOMAIN t THEN [s |-> session, ret |-> t]
              ELSE [s |-> [session EXCEPT !.selected_text_spans = @ \ inter],
                    ret |-> None])

\* _menu_create_concept; name = '': the dialog gave no name. ret is what
\* add_concept returned, or [cancelled |-> TRUE].
MenuCreateConcept(attribute, offset, name) ==
    LET sel == menu_select_text_span(session, offset)
        r == add_concept(current_graph(sel.s), name, sel.s.selected_text_spans, attribute)
    IN /\ name # "" => Created([sel.s EXCEPT !.graphs[sel.s.tid + 1] = r.g]) <= MaxCreated
       /\ Handle([op |-> "menu_create_concept", flag |-> attribute, name |-> name],
                 IF sel.ret # None THEN sel
                 ELSE IF name = "" THEN [s |-> sel.s, ret |-> [cancelled |-> TRUE]]
                 ELSE [s |-> [sel.s EXCEPT !.graphs[sel.s.tid + 1] = r.g,
                                           !.selected_text_spans = {}],
                       ret |-> r.ret])

\* menu_delete; sel is what find_concept_or_relation returns: None, a
\* concept ID [cid |-> id] or [label, parent_id, child_id]
MenuDelete(sel) ==
    LET g == current_graph(session)
        removed == remove_concept(g, sel.cid, TRUE)
        rels == SelectSeq(parent_relations(g, sel.child_id, FALSE), LAMBDA e :
                    e.val.label = sel.label /\ e.val.parent_id = sel.parent_id)
        after == IF sel = None THEN None
                 ELSE IF "cid" \in DOMAIN sel
                 THEN IF removed.ret # None THEN [g |-> removed.g] ELSE None
                 ELSE IF Len(rels) > 0 THEN [g |-> remove_relation(g, rels[1].key).g]
                 ELSE None
    IN Handle([op |-> "menu_delete"],
              [s |-> IF after = None THEN session
                     ELSE [session EXCEPT !.graphs[session.tid + 1] = after.g,
                                          !.selected_parent = None,
                                          !.selected_child = None],
               ret |-> None])

\* menu_select_parent (pctype 'p') and menu_select_child ('c'); selection is
\* what selected_concept_in_graph returns: None or [cid, begin]
MenuSelectConceptInGraph(pctype, selection) ==
    LET s == session
        same(v) == v # None /\ selection.cid = v.cid
    IN Handle([op |-> "menu_select_concept_in_graph", pctype |-> pctype],
              [s |-> IF selection = None THEN s
                     ELSE IF pctype = "p"
                     THEN IF same(s.selected_parent) THEN s
                          ELSE [s EXCEPT !.selected_parent = selection,
                                         !.selected_child =
                                            IF same(s.selected_child) THEN None ELSE @]
                     ELSE IF same(s.selected_child) THEN s
                          ELSE [s EXCEPT !.selected_child = selection,
                                         !.selected_parent =
                                            IF same(s.selected_parent) THEN None ELSE @],
               ret |-> None])

MenuNavigatePrevious(now) ==
    LET s == menu_file_save(session, now)
    IN Handle([op |-> "menu_navigate_previous"],
              [s |-> IF 0 <= s.tid - 1 THEN select_annotation(s, s.tid - 1) ELSE s,
               ret |-> None])

MenuNavigateNext(now) ==
    LET s == menu_file_save(session, now)
    IN Handle([op |-> "menu_navigate_next"],
              [s |-> IF s.tid + 1 < Len(s.graphs) THEN select_annotation(s, s.tid + 1)
                     ELSE s,
               ret |-> None])

MenuNavigateJumpFirst(now) ==
    Handle([op |-> "menu_navigate_jump_first"],
           [s |-> select_annotation(menu_file_save(session, now), 0), ret |-> None])

MenuNavigateJumpLast(now) ==
    Handle([op |-> "menu_navigate_jump_last"],
           [s |-> select_annotation(menu_file_save(session, now),
                                    Len(session.graphs) - 1),
            ret |-> None])

\* menu_navigate_jump; the dialog gives tid between 0 and the last index,
\* ok = FALSE: it was cancelled
MenuNavigateJump(now, tid, ok) ==
    LET s == menu_file_save(session, now)
    IN /\ tid \in 0..(Len(session.graphs) - 1)
       /\ Handle([op |-> "menu_navigate_jump", ok |-> ok],
                 [s |-> IF ok THEN select_annotation(s, tid) ELSE s, ret |-> None])


\* ------------------------------------------------------------------ Next
ConceptIds == {ConceptId(a, n) : a \in BOOLEAN, n \in 0..(MaxConceptId - 1)}

RelationIds == {RelationId(n) : n \in 0..(MaxRelationId - 1)}

\* Spans: the token_ids arguments of the specifications that also build
\* relations (a span of the two tokens, or no anchor); SpecCoverage takes
\* every set of indices.
Spans == {{}, {0, 1}}

\* Spec: the whole API of Graph.
Next ==
    \/ \E name \in Names, token_ids \in Spans, attribute \in BOOLEAN :
          AddConcept(name, token_ids, attribute)
    \/ \E cid \in ConceptIds : GetConcept(cid)
    \/ \E cid \in ConceptIds, token_ids \in Spans \ {{}} : AddTokenIds(cid, token_ids)
    \/ \E cid \in ConceptIds, token_ids \in Spans \ {{}} : RemoveTokenIds(cid, token_ids)
    \/ \E cid \in ConceptIds, name \in Names : UpdateConcept(cid, name)
    \/ \E cid \in ConceptIds, remove_relations \in BOOLEAN : RemoveConcept(cid, remove_relations)
    \/ \E rid \in RelationIds : GetRelation(rid)
    \/ \E parent_id \in Keys(graph.concepts), child_id \in Keys(graph.concepts),
          label \in Labels, referent \in BOOLEAN :
          AddRelation(parent_id, child_id, label, referent)
    \/ \E rid \in RelationIds, label \in Labels : UpdateRelation(rid, label)
    \/ \E rid \in RelationIds : RemoveRelation(rid)
    \/ RootIds
    \/ \E amr \in BOOLEAN : PenmanGraphs(amr)
    \/ JsonDumps
    \/ Factory

Spec == Init /\ [][Next]_vars

\* SpecCoverage: the concept and token operations alone, on every set of
\* token indices, one past the end of the sentence included.
NextCoverage ==
    \/ \E name \in Names, token_ids \in SUBSET TokenIds, attribute \in BOOLEAN :
          AddConcept(name, token_ids, attribute)
    \/ \E cid \in ConceptIds, token_ids \in SUBSET TokenIds : AddTokenIds(cid, token_ids)
    \/ \E cid \in ConceptIds, token_ids \in SUBSET TokenIds : RemoveTokenIds(cid, token_ids)
    \/ \E cid \in ConceptIds, name \in Names : UpdateConcept(cid, name)
    \/ \E cid \in ConceptIds : RemoveConcept(cid, TRUE)

SpecCoverage == Init /\ [][NextCoverage]_vars

\* SpecIds: the four operations that issue and retire IDs.
NextIds ==
    \/ \E name \in Names, attribute \in BOOLEAN : AddConcept(name, {}, attribute)
    \/ \E cid \in Keys(graph.concepts), remove_relations \in BOOLEAN :
          RemoveConcept(cid, remove_relations)
    \/ \E parent_id \in Keys(graph.concepts), child_id \in Keys(graph.concepts),
          label \in Labels :
          AddRelation(parent_id, child_id, label, FALSE)
    \/ \E rid \in Keys(graph.relations) : RemoveRelation(rid)

SpecIds == Init /\ [][NextIds]_vars

\* SpecCascade: anchored concepts, relations between them, and removal with
\* and without cascade.
NextCascade ==
    \/ \E name \in Names, token_ids \in Spans : AddConcept(name, token_ids, FALSE)
    \/ \E cid \in Keys(graph.concepts), remove_relations \in BOOLEAN :
          RemoveConcept(cid, remove_relations)
    \/ \E parent_id \in Keys(graph.concepts), child_id \in Keys(graph.concepts),
          label \in Labels :
          AddRelation(parent_id, child_id, label, FALSE)

SpecCascade == Init /\ [][NextCascade]_vars

\* SpecRoots: referent and non-referent relations, removals with and without
\* cascade, and root_ids.
NextRoots ==
    \/ \E name \in Names : AddConcept(name, {}, FALSE)
    \/ \E cid \in Keys(graph.concepts), remove_relations \in BOOLEAN :
          RemoveConcept(cid, remove_relations)
    \/ \E parent_id \in Keys(graph.concepts), child_id \in Keys(graph.concepts),
          label \in Labels, referent \in BOOLEAN :
          AddRelation(parent_id, child_id, label, referent)
    \/ \E rid \in Keys(graph.relations) : RemoveRelation(rid)
    \/ RootIds

SpecRoots == Init /\ [][NextRoots]_vars

\* SpecLookup: the eight operations that take an ID, with IDs that are in
\* the graph and IDs that are not.
NextLookup ==
    \/ \E name \in Names, token_ids \in Spans : AddConcept(name, token_ids, FALSE)
    \/ \E parent_id \in Keys(graph.concepts), child_id \in Keys(graph.concepts),
          label \in Labels :
          AddRelation(parent_id, child_id, label, FALSE)
    \/ \E cid \in ConceptIds : GetConcept(cid)
    \/ \E cid \in ConceptIds, token_ids \in Spans \ {{}} : AddTokenIds(cid, token_ids)
    \/ \E cid \in ConceptIds, token_ids \in Spans \ {{}} : RemoveTokenIds(cid, token_ids)
    \/ \E cid \in ConceptIds, name \in Names : UpdateConcept(cid, name)
    \/ \E cid \in ConceptIds : RemoveConcept(cid, TRUE)
    \/ \E rid \in RelationIds : GetRelation(rid)
    \/ \E rid \in RelationIds, label \in Labels : UpdateRelation(rid, label)
    \/ \E rid \in RelationIds : RemoveRelation(rid)

SpecLookup == Init /\ [][NextLookup]_vars

\* SpecJson: graphs of concepts, attributes and relations (a relation from a
\* concept to itself is entered as a referent one), dumped and loaded again.
NextJson ==
    \/ \E name \in Names, token_ids \in Spans, attribute \in BOOLEAN :
          AddConcept(name, token_ids, attribute)
    \/ \E cid \in Keys(graph.concepts) : RemoveConcept(cid, TRUE)
    \/ \E parent_id \in Keys(graph.concepts), child_id \in Keys(graph.concepts),
          label \in Labels :
          AddRelation(parent_id, child_id, label, parent_id = child_id)
    \/ JsonDumps
    \/ Factory

SpecJson == Init /\ [][NextJson]_vars

\* SpecSerial: the operations that change the graph, the PENMAN export that
\* assigns first_token_id, and the dump and the load.
NextSerial ==
    \/ \E name \in Names, token_ids \in Spans, attribute \in BOOLEAN :
          AddConcept(name, token_ids, attribute)
    \/ \E cid \in Keys(graph.concepts), token_ids \in Spans \ {{}} : AddTokenIds(cid, token_ids)
    \/ \E cid \in Keys(graph.concepts), token_ids \in Spans \ {{}} : RemoveTokenIds(cid, token_ids)
    \/ \E cid \in Keys(graph.concepts), remove_relations \in BOOLEAN :
          RemoveConcept(cid, remove_relations)
    \/ \E parent_id \in Keys(graph.concepts), child_id \in Keys(graph.concepts),
          label \in Labels, referent \in BOOLEAN :
          AddRelation(parent_id, child_id, label, referent)
    \/ \E rid \in Keys(graph.relations) : RemoveRelation(rid)
    \/ PenmanGraphs(FALSE)
    \/ JsonDumps
    \/ Factory

SpecSerial == Init /\ [][NextSerial]_vars

\* SpecOffsets: OffsetMap.token_ids on every sentence of at most MaxTokens
\* words and on every pair of offsets from one before the text to one past it.
MaxTokens == 3

Words == {"I", "boy"}

Sentences == UNION {[1..n -> Words] : n \in 0..MaxTokens}

InitOffsets ==
    /\ graph \in {Graph(tokens) : tokens \in Sentences}
    /\ call = Call("Graph", NoId, {}, FALSE)
    /\ ret = None
    /\ issued = {}
    /\ cloned = None
    /\ reader = Reader
    /\ session = GraphAnnotator

NextOffsets ==
    \E begin \in (-1)..(Len(OffsetMap(graph.tokens).text) + 1),
       end \in (-1)..(Len(OffsetMap(graph.tokens).text) + 1) :
        TokenIdsOf(begin, end)

SpecOffsets == InitOffsets /\ [][NextOffsets]_vars

\* SpecClone: a graph of concepts and relations between two of them is built
\* and cloned, and then at most MaxCloneCalls mutating methods are called,
\* each on the original or on the clone.
MaxCloneCalls == 1

NextClone ==
    \/ /\ cloned = None
       /\ \/ \E token_ids \in Spans : AddConcept("boy", token_ids, FALSE)
          \/ \E parent_id \in Keys(graph.concepts), child_id \in Keys(graph.concepts) :
                parent_id # child_id /\ AddRelation(parent_id, child_id, "ARG0", FALSE)
          \/ Clone
    \/ /\ cloned # None
       /\ cloned.calls < MaxCloneCalls
       /\ \/ Mutate(graph, OnOriginal)
          \/ Mutate(Deref(cloned.obj, graph), OnClone)

SpecClone == Init /\ [][NextClone]_vars

\* SpecPenman: concepts, relations with and without the referent flag, and
\* the rendering with and without the AMR header.
NextPenman ==
    \/ \E name \in Names : AddConcept(name, {}, FALSE)
    \/ \E parent_id \in Keys(graph.concepts), child_id \in Keys(graph.concepts),
          label \in Labels, referent \in BOOLEAN :
          AddRelation(parent_id, child_id, label, referent)
    \/ \E amr \in BOOLEAN : PenmanGraphs(amr)

SpecPenman == Init /\ [][NextPenman]_vars

\* SpecReAdd: as SpecPenman, with relations removed and added again.
NextReAdd ==
    \/ \E name \in Names : AddConcept(name, {}, FALSE)
    \/ \E parent_id \in Keys(graph.concepts), child_id \in Keys(graph.concepts),
          label \in Labels, referent \in BOOLEAN :
          AddRelation(parent_id, child_id, label, referent)
    \/ \E rid \in Keys(graph.relations) : RemoveRelation(rid)
    \/ \E amr \in BOOLEAN : PenmanGraphs(amr)

SpecReAdd == Init /\ [][NextReAdd]_vars

\* SpecRoundTrip: a graph of concepts of two names, attributes among them,
\* and relations with and without the referent flag is written by convert
\* and the file is read back by penman_reader.
TwoNames == {"boy", "The"}

NextRoundTrip ==
    \/ \E name \in TwoNames, attribute \in BOOLEAN : AddConcept(name, {}, attribute)
    \/ \E parent_id \in Keys(graph.concepts), child_id \in Keys(graph.concepts),
          referent \in BOOLEAN :
          AddRelation(parent_id, child_id, "ARG0", referent)
    \/ Convert
    \/ PenmanReader

SpecRoundTrip == Init /\ [][NextRoundTrip]_vars

\* The lines of the files SpecReader reads:
\*   (c0 / boy          a node is opened
\*   (c0 / boy)         a whole document
\*   :ARG0 (c1 / boy    a child is opened under a label
\*   :ARG0 c0)          a reference under a label
\*   c0)                a reference under no label
\*   (c1 / boy))        a child under no label
\*   (c1                no name after the ID
\*   :ARG0 boy)         a constant under a label
\*   )                  a bracket only
Lines ==
    {<<"(", "c", "0", " ", "/", " ", "b", "o", "y">>,
     <<"(", "c", "0", " ", "/", " ", "b", "o", "y", ")">>,
     <<":", "A", "R", "G", "0", " ", "(", "c", "1", " ", "/", " ", "b", "o", "y">>,
     <<":", "A", "R", "G", "0", " ", "c", "0", ")">>,
     <<"c", "0", ")">>,
     <<"(", "c", "1", " ", "/", " ", "b", "o", "y", ")", ")">>,
     <<"(", "c", "1">>,
     <<":", "A", "R", "G", "0", " ", "b", "o", "y", ")">>,
     <<")">>}

\* SpecReader: penman_reader on every file of at most MaxLines lines drawn
\* from Lines.
NextReader ==
    \/ \E line \in Lines : ReadLine(line)
    \/ EndOfInput

SpecReader == Init /\ [][NextReader]_vars

\* SpecAdd: add_concept with no anchor, one index or two, with and without
\* the attribute flag, on graphs that also hold relations (from a concept to
\* one added after it).
AddSpans == {{}, {1}, {1, 0}}

NextAdd ==
    \/ \E name \in Names, token_ids \in AddSpans, attribute \in BOOLEAN :
          AddConcept(name, token_ids, attribute)
    \/ \E parent_id \in Keys(graph.concepts), child_id \in Keys(graph.concepts),
          label \in Labels :
          /\ Suffix(parent_id) < Suffix(child_id)
          /\ AddRelation(parent_id, child_id, label, FALSE)

SpecAdd == Init /\ [][NextAdd]_vars

\* The graphs of SpecAssign and SpecOrder are built first, of concepts
\* anchored to the first token, to the second or to none, and are then only
\* read.
Anchors == {{}, {0}, {1}}

Building == call.op \in {"Graph", "add_concept", "add_relation"}

\* SpecAssign: relations without the referent flag between any two concepts
\* (cycles included), and the first_token_id pass.
NextAssign ==
    \/ /\ Building
       /\ \/ \E token_ids \in Anchors : AddConcept("boy", token_ids, FALSE)
          \/ \E parent_id \in Keys(graph.concepts), child_id \in Keys(graph.concepts) :
                AddRelation(parent_id, child_id, "ARG0", FALSE)
    \/ AssignFirstTokenIds

SpecAssign == Init /\ [][NextAssign]_vars

\* SpecOrder: relations without the referent flag from a concept to one
\* added after it, relations with the flag between any two concepts, and
\* the rendering.
NextOrder ==
    \/ /\ Building
       /\ \/ \E token_ids \in Anchors : AddConcept("boy", token_ids, FALSE)
          \/ \E parent_id \in Keys(graph.concepts), child_id \in Keys(graph.concepts),
                referent \in BOOLEAN :
                /\ referent \/ Suffix(parent_id) < Suffix(child_id)
                /\ AddRelation(parent_id, child_id, "ARG0", referent)
    \/ PenmanGraphs(FALSE)

SpecOrder == Init /\ [][NextOrder]_vars

\* SpecAligned: penman_reader on files with alignment comments, and the
\* first_token_id pass on the graphs it returns. The lines:
\*   # ::align c0/1,0     the alignment of c0, the later index first
\*   # ::align c0/0 c1/1  two alignments
\*   (c0 / boy)           a whole document
\*   (c0 / boy            a node is opened
\*   :ARG0 (c1 / boy))    a child closes the document
AlignedLines ==
    {<<"#", " ", ":", ":", "a", "l", "i", "g", "n", " ", "c", "0", "/", "1", ",", "0">>,
     <<"#", " ", ":", ":", "a", "l", "i", "g", "n", " ", "c", "0", "/", "0", " ", "c", "1", "/", "1">>,
     <<"(", "c", "0", " ", "/", " ", "b", "o", "y", ")">>,
     <<"(", "c", "0", " ", "/", " ", "b", "o", "y">>,
     <<":", "A", "R", "G", "0", " ", "(", "c", "1", " ", "/", " ", "b", "o", "y", ")", ")">>}

NextAligned ==
    \/ \E line \in AlignedLines : ReadLine(line)
    \/ EndOfInput
    \/ \E k \in 1..MaxLines : Adopt(k)
    \/ call.op \in {"adopt", "_assign_first_token_ids"} /\ AssignFirstTokenIds

SpecAligned == Init /\ [][NextAligned]_vars

\* SpecFixpoint: the first_token_id pass on every graph of MaxNodes concepts,
\* the i-th of them anchored to token i - 1 or to none, with relations
\* without the referent flag that close no cycle. The graphs are built by
\* add_concept and add_relation.
MaxNodes == 4

RECURSIVE WithConcepts(_, _, _)
WithConcepts(g, anchored, i) ==
    IF i > MaxNodes THEN g
    ELSE WithConcepts(add_concept(g, "boy", IF i \in anchored THEN {i - 1} ELSE {}, FALSE).g,
                      anchored, i + 1)

RECURSIVE WithRelations(_, _)
WithRelations(g, edges) ==
    IF edges = {} THEN g
    ELSE LET e == CHOOSE x \in edges : TRUE
         IN WithRelations(add_relation(g, ConceptId(FALSE, e[1] - 1),
                                       ConceptId(FALSE, e[2] - 1), "ARG0", FALSE).g,
                          edges \ {e})

\* the pairs joined by a path of at most 2^n edges
RECURSIVE Paths(_, _)
Paths(edges, n) ==
    IF n = 0 THEN edges
    ELSE LET half == Paths(edges, n - 1)
         IN half \cup {<<p[1][1], p[2][2]>> :
                          p \in {q \in half \X half : q[1][2] = q[2][1]}}

Acyclic(edges) == \A e \in Paths(edges, MaxNodes) : e[1] # e[2]

InitFixpoint ==
    /\ graph \in {WithRelations(WithConcepts(Graph(<<"The", "boy", "I", "boy">>),
                                             anchored, 1), edges) :
                     anchored \in SUBSET (1..MaxNodes),
                     edges \in {E \in SUBSET ((1..MaxNodes) \X (1..MaxNodes)) : Acyclic(E)}}
    /\ call = Call("Graph", NoId, {}, FALSE)
    /\ ret = None
    /\ issued = {}
    /\ cloned = None
    /\ reader = Reader
    /\ session = GraphAnnotator

SpecFixpoint == InitFixpoint /\ [][AssignFirstTokenIds]_vars

\* SpecAncestor: graphs of concepts and of relations with and without the
\* referent flag between any two of them are built first; is_ancestor is
\* then asked about any two concepts, with its default and with
\* ignore_referent = True.
NextAncestor ==
    \/ /\ Building
       /\ \/ AddConcept("boy", {}, FALSE)
          \/ \E parent_id \in Keys(graph.concepts), child_id \in Keys(graph.concepts),
                referent \in BOOLEAN :
                AddRelation(parent_id, child_id, "ARG0", referent)
    \/ \E concept_id1 \in Keys(graph.concepts), concept_id2 \in Keys(graph.concepts),
          ignore_referent \in BOOLEAN :
          IsAncestor(concept_id1, concept_id2, ignore_referent)

SpecAncestor == Init /\ [][NextAncestor]_vars


\* SpecRelate: add_relation between the IDs c0 and c1, whether or not a
\* concept has them, in both directions, from an ID to itself and
\* repeatedly; relations are also removed.
NextRelate ==
    \/ AddConcept("boy", {0}, FALSE)
    \/ \E parent_id \in {ConceptId(FALSE, n) : n \in 0..1},
          child_id \in {ConceptId(FALSE, n) : n \in 0..1}, referent \in BOOLEAN :
          AddRelation(parent_id, child_id, "ARG0", referent)
    \/ \E rid \in Keys(graph.relations) : RemoveRelation(rid)

SpecRelate == Init /\ [][NextRelate]_vars


\* The lines of the files SpecFold reads:
\*   (c0 / boy                    a node is opened
\*   :ARG0 c1                     a constant, or a name used before its node
\*   :ARG0 c1)                    the same, closing the node
\*   :ARG0 boy                    a constant that names no node
\*   :ARG1 (c1 / boy))            a child that closes the document
\*   :ARG1 (c0 / boy))            a child under the local name of its parent
\*   (c0 / boy) :ARG0 c0          a reference after the root is closed
\*   (c0 / boy) :ARG0 boy         a constant after the root is closed
\*   (c0 / boy) :ARG0 (c1 / boy)  a node after the root is closed
FoldLines ==
    {<<"(", "c", "0", " ", "/", " ", "b", "o", "y">>,
     <<":", "A", "R", "G", "0", " ", "c", "1">>,
     <<":", "A", "R", "G", "0", " ", "c", "1", ")">>,
     <<":", "A", "R", "G", "0", " ", "b", "o", "y">>,
     <<":", "A", "R", "G", "1", " ", "(", "c", "1", " ", "/", " ", "b", "o", "y", ")", ")">>,
     <<":", "A", "R", "G", "1", " ", "(", "c", "0", " ", "/", " ", "b", "o", "y", ")", ")">>,
     <<"(", "c", "0", " ", "/", " ", "b", "o", "y", ")", " ", ":", "A", "R", "G", "0", " ", "c", "0">>,
     <<"(", "c", "0", " ", "/", " ", "b", "o", "y", ")", " ", ":", "A", "R", "G", "0", " ", "b", "o", "y">>,
     <<"(", "c", "0", " ", "/", " ", "b", "o", "y", ")", " ", ":", "A", "R", "G", "0", " ", "(", "c", "1", " ", "/", " ", "b", "o", "y", ")">>}

\* SpecFold: penman_reader on every file of at most MaxLines lines drawn
\* from FoldLines.
NextFold ==
    \/ \E line \in FoldLines : ReadLine(line)
    \/ EndOfInput

SpecFold == Init /\ [][NextFold]_vars


\* SpecAnnotate: an editing session on a text file of two lines, 'The boy'
\* and 'I', opened by menu_file_open: one Graph per line, the first one
\* shown. The concept
\* IDs that can be highlighted in the graph are those of the graph shown.
\* No relation is created in the session, so none is there to delete.
\* What selected_text_offset returns: None when nothing is highlighted,
\* else a stretch of the text, here one from and to the edge of a word (a
\* stretch that cuts a word selects the same tokens: adjust_begin, adjust_end).
Highlight(om) ==
    LET Edges == Keys(om.begin_offset_to_id) \cup Keys(om.end_offset_to_id)
    IN {None} \cup {o \in {Offset(b, e) : b \in Edges, e \in Edges} : o.begin < o.end}

InitAnnotate ==
    /\ graph = Graph(Text)
    /\ call = Call("Graph", NoId, {}, FALSE)
    /\ ret = None
    /\ issued = {}
    /\ cloned = None
    /\ reader = Reader
    /\ session = select_annotation(
                    [GraphAnnotator EXCEPT
                       !.filename = "d.unknown.json",
                       !.graphs = <<[Graph(Text) EXCEPT !.tid = Str(<<"d", ".", "0">>),
                                       !.annotator = Str(<<"u">>)],
                                    [Graph(<<"I">>) EXCEPT !.tid = Str(<<"d", ".", "1">>),
                                       !.annotator = Str(<<"u">>)]>>],
                    0)

NextAnnotate ==
    LET g == current_graph(session)
        Highlights == Highlight(OffsetMap(g.tokens))
        now == Str(<<"0">>)
    IN \/ \E offset \in Highlights : MenuSelectTextSpan(offset)
       \/ \E offset \in Highlights : MenuDeselectTextSpan(offset)
       \/ \E attribute \in BOOLEAN, offset \in Highlights, name \in {"", "boy"} :
             MenuCreateConcept(attribute, offset, name)
       \/ \E sel \in {None} \cup {[cid |-> cid] : cid \in ConceptIds} : MenuDelete(sel)
       \/ \E pctype \in {"p", "c"},
             selection \in {None} \cup {[cid |-> cid, begin |-> 1] : cid \in Keys(g.concepts)} :
             MenuSelectConceptInGraph(pctype, selection)
       \/ MenuNavigatePrevious(now)
       \/ MenuNavigateNext(now)
       \/ MenuNavigateJumpFirst(now)
       \/ MenuNavigateJumpLast(now)
       \/ \E tid \in 0..1, ok \in BOOLEAN : MenuNavigateJump(now, tid, ok)

SpecAnnotate == InitAnnotate /\ [][NextAnnotate]_vars


\* ================================================================ claims
AllTokenIds(g) ==
    UNION {set(g.concepts[i].val.token_ids) : i \in 1..Len(g.concepts)}

ConceptOps == {"get_concept", "update_concept", "remove_concept",
               "add_token_ids", "remove_token_ids"}

RelationOps == {"get_relation", "update_relation", "remove_relation"}

\* C1: add_concept with a non-empty token_ids that contains an index already
\* in covered_token_ids returns None and changes nothing of the graph: no
\* concept is added, covered_token_ids keeps its value (the indices of the
\* request that were free stay free) and the concept counter does not move.
C1_OverlapRejected ==
    [][(call'.op = "add_concept" /\ call'.token_ids \cap graph.covered_token_ids # {})
        => (ret' = None /\ graph' = graph /\ issued' = issued)]_vars

\* a rejected request of which one index was covered and another was free
C1_Witness ==
    /\ call.op = "add_concept"
    /\ ret = None
    /\ call.token_ids \cap graph.covered_token_ids # {}
    /\ call.token_ids \ graph.covered_token_ids # {}

\* C2: an ID returned by add_concept has a numeric suffix greater than that
\* of every concept or attribute ID returned before, an ID returned by
\* add_relation one greater than that of every relation ID returned before,
\* and no removal changes a counter.
C2_IdsNeverReused ==
    [][/\ (call'.op \in {"add_concept", "add_relation"} /\ "id" \in DOMAIN ret')
            => \A old \in issued :
                  ((old[1] = "r") <=> (ret'.id[1] = "r")) => Suffix(ret'.id) > Suffix(old)
       /\ call'.op \in {"remove_concept", "remove_relation"}
            => /\ graph'._concept_id = graph._concept_id
               /\ graph'._relation_id = graph._relation_id]_vars

\* a concept added after another one was removed, and a relation added after
\* another one was removed
C2_Witness ==
    /\ call.op = "add_relation"
    /\ \E old \in issued : old[1] = "r" /\ old \notin Keys(graph.relations)
    /\ \E old \in issued : old[1] # "r" /\ old \notin Keys(graph.concepts)
    /\ Len(graph.concepts) > 0

C4_NoSharedTokenId ==
    \A i, j \in 1..Len(graph.concepts) :
        (i # j /\ ~graph.concepts[i].val.attribute /\ ~graph.concepts[j].val.attribute)
            => set(graph.concepts[i].val.token_ids)
                 \cap set(graph.concepts[j].val.token_ids) = {}

\* two anchored non-attribute concepts, one just extended by add_token_ids
\* with an argument of which a part was covered
C4_Witness ==
    /\ call.op = "add_token_ids"
    /\ "token_ids" \in DOMAIN ret
    /\ \E i, j \in 1..Len(graph.concepts) :
          /\ i # j
          /\ ~graph.concepts[i].val.attribute
          /\ ~graph.concepts[j].val.attribute
          /\ graph.concepts[i].key = call.id
          /\ Len(graph.concepts[i].val.token_ids) > Cardinality(ret.token_ids)
          /\ Len(graph.concepts[j].val.token_ids) > 0

\* C5: every token index stored in the token_ids of a concept lies in
\* [0, len(tokens)).
C5_TokenIdsInRange ==
    \A t \in AllTokenIds(graph) : 0 <= t /\ t < Len(graph.tokens)

\* C6: remove_concept(id) with remove_relations=True on a concept of the
\* graph removes the relations of which id is the parent or the child and
\* no other, and takes the token indices of the concept out of
\* covered_token_ids, so that add_concept on those indices is accepted.
C6_CascadeDelete ==
    [][(call'.op = "remove_concept" /\ call'.flag /\ call'.id \in Keys(graph.concepts))
        => LET con == DictGet(graph.concepts, call'.id)
               touching(e) == e.val.parent_id = call'.id \/ e.val.child_id = call'.id
           IN /\ \A e \in set(graph'.relations) : ~touching(e)
              /\ set(graph'.relations) = {e \in set(graph.relations) : ~touching(e)}
              /\ Len(graph'.relations) = Cardinality(set(graph'.relations))
              /\ call'.id \notin Keys(graph'.concepts)
              /\ graph'.covered_token_ids \cap set(con.token_ids) = {}
              /\ "id" \in DOMAIN add_concept(graph', con.name, set(con.token_ids),
                                             con.attribute).ret]_vars

\* an anchored concept was removed with cascade, one relation of two is left
C6_Witness ==
    /\ call.op = "remove_concept"
    /\ call.flag
    /\ "concept" \in DOMAIN ret
    /\ Len(ret.concept.token_ids) > 0
    /\ graph._relation_id = 2
    /\ Len(graph.relations) = 1
    /\ graph.covered_token_ids = {}

\* C7: get_concept, update_concept, remove_concept, add_token_ids,
\* remove_token_ids, get_relation, update_relation and remove_relation with
\* an ID that is not in the graph return None and change nothing.
C7_LookupMiss ==
    [][(\/ call'.op \in ConceptOps /\ call'.id \notin Keys(graph.concepts)
        \/ call'.op \in RelationOps /\ call'.id \notin Keys(graph.relations))
        => (ret' = None /\ graph' = graph /\ issued' = issued)]_vars

\* an update of a concept that was removed, in a graph that has concepts and
\* relations
C7_Witness ==
    /\ call.op = "update_concept"
    /\ call.id \notin Keys(graph.concepts)
    /\ call.id \in issued
    /\ ret = None
    /\ Len(graph.concepts) > 0
    /\ Len(graph.relations) > 0
    /\ graph.covered_token_ids # {}

Structure(g) ==
    [concepts |-> {<<e.key, e.val.name, e.val.token_ids, e.val.attribute>> :
                      e \in set(g.concepts)},
     relations |-> {<<e.key, e.val.parent_id, e.val.child_id, e.val.label, e.val.referent>> :
                      e \in set(g.relations)},
     covered_token_ids |-> g.covered_token_ids,
     _concept_id |-> g._concept_id,
     _relation_id |-> g._relation_id]

\* C9: Graph.factory(json.loads(g.json_dumps())) has the concept map, the
\* relation map, the covered_token_ids and the two ID counters of g.
C9_JsonRoundTrip ==
    [][call'.op = "factory" => Structure(graph') = Structure(graph)]_vars

\* a graph with anchored concepts, a relation and a removed concept was
\* dumped and loaded
C9_Witness ==
    /\ call.op = "factory"
    /\ Len(graph.relations) > 0
    /\ graph.covered_token_ids # {}
    /\ graph._concept_id > Len(graph.concepts)

\* C10: the record json_dumps returns for g, loaded by Graph.factory and
\* dumped again, gives the same record.
C10_ReserializeIdentical ==
    json_dumps(factory(json_dumps(graph).ret.json)).ret.json = json_dumps(graph).ret.json

\* ' '.join(graph.tokens), and the offset at which token i (0-based) begins
SentenceText == join(<<" ">>, [i \in 1..Len(graph.tokens) |-> chars(graph.tokens[i])])

RECURSIVE TokenBegin(_)
TokenBegin(i) ==
    IF i = 0 THEN 0 ELSE TokenBegin(i - 1) + Len(chars(graph.tokens[i])) + 1

\* the tokens that have a non-space character inside [begin, end)
Touched(begin, end) ==
    {i \in 0..(Len(graph.tokens) - 1) :
        \E p \in begin..(end - 1) :
            /\ TokenBegin(i) <= p
            /\ p < TokenBegin(i) + Len(chars(graph.tokens[i + 1]))
            /\ SentenceText[p + 1] # " "}

\* C15: for 0 <= begin < end <= len(text), token_ids returns exactly the
\* indices of the tokens that have a non-space character inside [begin, end),
\* and these indices form a contiguous range.
C15_TokenIdsSnapOutward ==
    (/\ call.op = "token_ids"
     /\ 0 <= call.begin /\ call.begin < call.end /\ call.end <= Len(SentenceText))
    => /\ ret = [indices |-> Touched(call.begin, call.end)]
       /\ \A i \in ret.indices, j \in ret.indices :
             \A k \in i..j : k \in ret.indices

\* a selection from the middle of one word, over a space, to the middle of
\* the next word: both words are returned
C15_Witness ==
    /\ call.op = "token_ids"
    /\ 0 < call.begin /\ call.begin < call.end /\ call.end < Len(SentenceText)
    /\ SentenceText[call.begin] # " " /\ SentenceText[call.begin + 1] # " "
    /\ SentenceText[call.end] # " " /\ SentenceText[call.end + 1] # " "
    /\ Cardinality(ret.indices) = 2

\* C16 as stated: token_ids returns the empty set for every offset with begin
\* or end outside the text, with end <= begin, or selecting only spaces.
C16_InvalidOffsetsEmpty ==
    (/\ call.op = "token_ids"
     /\ \/ call.begin < 0 \/ call.begin >= Len(SentenceText)
        \/ call.end <= 0 \/ call.end > Len(SentenceText)
        \/ call.end <= call.begin
        \/ \A p \in call.begin..(call.end - 1) : SentenceText[p + 1] = " ")
    => ret = [indices |-> {}]

\* C14: clone() returns a graph equal to the original and leaves the original
\* as it is; every mutating method called on the clone afterwards leaves the
\* whole original (concepts, relations, covered_token_ids, counters)
\* unchanged, and every one called on the original leaves the clone unchanged.
C14_CloneIndependent ==
    [][/\ call'.op = "clone"
            => (graph' = graph /\ Deref(cloned'.obj, graph') = graph)
       /\ ("on" \in DOMAIN call' /\ call'.on = "clone")
            => graph' = graph
       /\ ("on" \in DOMAIN call' /\ call'.on = "original")
            => Deref(cloned'.obj, graph') = Deref(cloned.obj, graph)]_vars

\* a concept that has a relation and tokens was removed from the clone, which
\* now differs from the original in concepts, relations and covered_token_ids
C14_Witness ==
    /\ cloned # None
    /\ call.op = "remove_concept" /\ call.on = "clone" /\ ret # None
    /\ Len(graph.relations) > Len(Deref(cloned.obj, graph).relations)
    /\ Len(graph.concepts) > Len(Deref(cloned.obj, graph).concepts)
    /\ graph.covered_token_ids # Deref(cloned.obj, graph).covered_token_ids

\* the number of times ch occurs in the string s
Count(s, ch) == Cardinality({i \in 1..Len(s) : s[i] = ch})

\* the number of concepts written out below (and including) concept_id when
\* only the relations that are not referent are followed
RECURSIVE Expanded(_, _), ExpandedFrom(_, _, _)
Expanded(g, concept_id) ==
    1 + ExpandedFrom(g, child_relations(g, concept_id, TRUE), 1)

ExpandedFrom(g, rels, k) ==
    IF k > Len(rels) THEN 0
    ELSE Expanded(g, rels[k].val.child_id) + ExpandedFrom(g, rels, k + 1)

\* C12: when penman_graphs returns, every relation with referent = true is
\* printed as the bare child ID and nothing else (no '(id / name', no ')',
\* none of the child's own relations), so that each returned string has one
\* '(' and one ')' per concept reached without following a referent relation.
C12_ReferentPrintedBare ==
    (call.op = "penman_graphs" /\ "strs" \in DOMAIN ret)
    => /\ \A i \in 1..Len(graph.relations) :
             graph.relations[i].val.referent
             => \A indent \in {0, 4} :
                   aux(graph, graph.relations[i].val, indent, call.flag, {})
                     = [s |-> graph.relations[i].val.child_id]
       /\ \A k \in 1..Len(ret.strs) :
             /\ Count(ret.strs[k], "(") = Expanded(graph, root_ids(graph)[k])
             /\ Count(ret.strs[k], ")") = Expanded(graph, root_ids(graph)[k])

\* one string that writes out both concepts, with a referent relation back to
\* a concept that has a relation of its own
C12_Witness ==
    /\ call.op = "penman_graphs" /\ "strs" \in DOMAIN ret
    /\ Len(ret.strs) = 1 /\ Len(graph.concepts) = 2
    /\ Count(ret.strs[1], "(") = 2
    /\ \E i \in 1..Len(graph.relations) :
          /\ graph.relations[i].val.referent
          /\ graph.relations[i].val.parent_id # graph.relations[i].val.child_id
          /\ Len(child_relations(graph, graph.relations[i].val.child_id, FALSE)) > 0

\* C20 as stated: for every relation of the graph, removing it and adding a
\* relation with the same parent, child, label and referent flag gives the
\* same root_ids and the same penman_graphs() output as before.
C20_ReAddRestoresOutput ==
    \A i \in 1..Len(graph.relations) :
        LET r == graph.relations[i].val
            g1 == remove_relation(graph, graph.relations[i].key).g
            g2 == add_relation(g1, r.parent_id, r.child_id, r.label, r.referent).g
        IN /\ root_ids(g2) = root_ids(graph)
           /\ \A amr \in BOOLEAN :
                 penman_graphs(g2, {}, amr).ret = penman_graphs(graph, {}, amr).ret

\* ---------------------------------------------------------------- C11
\* The (label, parent name, child name) triples of a graph built through the
\* API, its names given by their characters.
TriplesBuilt(g) ==
    {<<chars(g.relations[i].val.label),
       LET c == DictGet(g.concepts, g.relations[i].val.parent_id)
       IN IF c = None THEN None ELSE chars(c.name),
       LET c == DictGet(g.concepts, g.relations[i].val.child_id)
       IN IF c = None THEN None ELSE chars(c.name)>> : i \in 1..Len(g.relations)}

\* The triples of a graph penman_reader has returned.
TriplesRead(g) ==
    {<<g.relations[i].val.label,
       LET c == DictGet(g.concepts, g.relations[i].val.parent_id)
       IN IF c = None THEN None ELSE c.name,
       LET c == DictGet(g.concepts, g.relations[i].val.child_id)
       IN IF c = None THEN None ELSE c.name>> : i \in 1..Len(g.relations)}

\* C11: when the file that convert has written for a graph built through the
\* API is read back by penman_reader, the reader returns graphs, and the
\* (label, parent name, child name) triples of the graphs it returns are
\* together the triples of the graph that was written.
C11_RoundTripKeepsTriples ==
    call.op = "penman_reader"
    => /\ "ret" \in DOMAIN reader.result
       /\ reader.result.ret # None
       /\ UNION {TriplesRead(reader.result.ret.graphs[k]) :
                    k \in 1..Len(reader.result.ret.graphs)}
            = TriplesBuilt(graph)

\* ---------------------------------------------------------------- C13
\* The tokens of a line as populate_graph sees them.
TokensOf(line) == split(trim_line(line))

\* The line is read inside a document and is a bare token, alone or after a
\* relation label, that names (without its trailing ')') a local node name
\* registered in the document, with no more ')' than there are open nodes.
IsReference(rd, line) ==
    LET ts == TokensOf(line)
        t == ts[Len(ts)]
        nm == get_concept_name(t)
    IN /\ rd.result = Running
       /\ rd.graph # None
       /\ Len(ts) \in {1, 2}
       /\ Len(ts) = 2 => ts[1][1] = ":"
       /\ t[1] \notin {"(", ":"}
       /\ nm.cname # None
       /\ nm.cname.s \in Keys(rd.dstack.cid_map)
       /\ nm.nrrb <= Len(rd.dstack.concept_stack)

\* the relation label pending when the last token of the line is reached
PendingLabel(rd, line) ==
    IF Len(TokensOf(line)) = 2 THEN Str(Tail(TokensOf(line)[1])) ELSE rd.dstack.relation

\* the generated ID registered for the name the line refers to
Referred(rd, line) ==
    DictGet(rd.dstack.cid_map,
            get_concept_name(TokensOf(line)[Len(TokensOf(line))]).cname.s)

TopOfStack(rd) == rd.dstack.concept_stack[Len(rd.dstack.concept_stack)]

\* the graph of the document the last line read belongs to
Document(rd) == IF rd.graph # None THEN rd.graph ELSE rd.graphs[Len(rd.graphs)]

LastRelation(g) == g.relations[Len(g.relations)].val

AfterReference(rd, line) ==
    IF Truthy(PendingLabel(rd, line))
    THEN [rd.graph EXCEPT
            !.relations = Append(@, [key |-> RelationId(rd.graph._relation_id),
                                     val |-> Relation(TopOfStack(rd), Referred(rd, line),
                                                      PendingLabel(rd, line).s, TRUE)]),
            !._relation_id = @ + 1]
    ELSE rd.graph

IsUnlabelled(rd, line) ==
    LET ts == TokensOf(line)
        nm == get_concept_name(ts[Len(ts)])
    IN /\ rd.result = Running
       /\ rd.graph # None
       /\ Len(rd.dstack.concept_stack) > 0
       /\ ~Truthy(rd.dstack.relation)
       /\ \/ Len(ts) = 1 /\ ts[1][1] \notin {"(", ":"}
          \/ Len(ts) = 3 /\ ts[1][1] = "(" /\ ts[2] = <<"/">>
       /\ nm.cname # None
       /\ nm.nrrb <= Len(rd.dstack.concept_stack) + (IF Len(ts) = 3 THEN 1 ELSE 0)

\* C17: a node opening or a constant / reference token met while a node is
\* open and no relation label is pending is a parse error: a message with
\* the line number is printed and penman_reader returns None.
C17_UnlabelledChildIsError ==
    [][(call'.op = "read_line" /\ IsUnlabelled(reader, call'.line))
       => /\ reader'.result = [ret |-> None]
          /\ \E k \in 1..Len(reader'.printed) :
                reader'.printed[k].line = reader'.lid]_vars


\* ---------------------------------------------------------------- C18
\* The line is a constant, a reference or a node opening, alone or after a
\* relation label, whose last token carries more ')' than there are nodes
\* open once the token is handled.
IsOverClosed(rd, line) ==
    LET ts == TokensOf(line)
        body == IF ts[1][1] = ":" THEN Tail(ts) ELSE ts
        nm == get_concept_name(body[Len(body)])
    IN /\ rd.result = Running
       /\ Len(ts) > 0
       /\ rd.graph = None => ts[1][1] = "("
       /\ \/ Len(body) = 1 /\ body[1][1] \notin {"(", ":"}
          \/ Len(body) = 3 /\ body[1][1] = "(" /\ body[2] = <<"/">>
       /\ nm.cname # None
       /\ nm.nrrb > Len(rd.dstack.concept_stack) + (IF Len(body) = 3 THEN 1 ELSE 0)

\* C18: a token with more trailing ')' than there are open nodes is a parse
\* error: a message with the line number is printed and penman_reader
\* returns None; it neither raises nor returns the documents read so far.
C18_ExcessBracketIsError ==
    [][(call'.op = "read_line" /\ IsOverClosed(reader, call'.line))
       => /\ reader'.result = [ret |-> None]
          /\ \E k \in 1..Len(reader'.printed) :
                reader'.printed[k].line = reader'.lid]_vars


C21_AddConceptEffect ==
    [][(call'.op = "add_concept" /\ ret' # None)
       => LET c == DictGet(graph'.concepts, ret'.id)
          IN /\ ret'.id = <<IF call'.flag THEN "a" ELSE "c">> \o str(graph._concept_id)
             /\ ret'.id \notin Keys(graph.concepts)
             /\ c.attribute = call'.flag
             /\ c.name \in Names
             /\ {c.token_ids[i] : i \in 1..Len(c.token_ids)} = call'.token_ids
             /\ \A i \in 1..(Len(c.token_ids) - 1) : c.token_ids[i] < c.token_ids[i + 1]
             /\ graph'.covered_token_ids = graph.covered_token_ids \cup call'.token_ids
             /\ graph.covered_token_ids \cap call'.token_ids = {}
             /\ graph'._concept_id = graph._concept_id + 1
             /\ graph'.concepts = Append(graph.concepts, [key |-> ret'.id, val |-> c])
             /\ graph'.relations = graph.relations
             /\ graph'._relation_id = graph._relation_id]_vars

\* a second concept, anchored to two indices, has been added
C21_Witness ==
    /\ call.op = "add_concept"
    /\ ret # None
    /\ Cardinality(call.token_ids) = 2
    /\ Len(graph.concepts) = 2

\* ---------------------------------------------------------------- C22
\* C22: add_concept with the attribute flag is accepted, and returns a new
\* 'a' ID, even when an index of its token_ids is already covered.
C22_AttributeBypassesCoverage ==
    [][(call'.op = "add_concept" /\ call'.flag)
       => /\ ret' # None
          /\ ret'.id[1] = "a"
          /\ ret'.id \in Keys(graph'.concepts)]_vars


\* ---------------------------------------------------------------- C23
\* the concept whose rendering the string s is
RootOf(s) ==
    CHOOSE r \in Keys(graph.concepts) : penman(graph, r, call.flag) = [s |-> s]

FirstTokenId(g, cid) == DictGet(g.concepts, cid).first_token_id

\* C23: penman_graphs returns one string per root, ordered by ascending
\* first_token_id of the root, and by ID only between roots of equal
\* first_token_id.
C23_RootsByFirstToken ==
    (call.op = "penman_graphs" /\ "strs" \in DOMAIN ret)
    => /\ Len(ret.strs) = Len(root_ids(graph))
       /\ \A k \in 1..Len(ret.strs), l \in 1..Len(ret.strs) :
             k < l
             => \/ FirstTokenId(graph, RootOf(ret.strs[k]))
                     < FirstTokenId(graph, RootOf(ret.strs[l]))
                \/ /\ FirstTokenId(graph, RootOf(ret.strs[k]))
                        = FirstTokenId(graph, RootOf(ret.strs[l]))
                   /\ Suffix(RootOf(ret.strs[k])) < Suffix(RootOf(ret.strs[l]))


\* ---------------------------------------------------------------- C24
\* C24: after _assign_first_token_ids every concept with a non-empty
\* token_ids has first_token_id equal to the least of its token_ids.
C24_FirstTokenIsMinimum ==
    (call.op = "_assign_first_token_ids" /\ ret = None)
    => \A i \in 1..Len(graph.concepts) :
          LET c == graph.concepts[i].val
          IN Len(c.token_ids) > 0
             => /\ c.first_token_id \in set(c.token_ids)
                /\ \A j \in 1..Len(c.token_ids) : c.first_token_id <= c.token_ids[j]


\* ---------------------------------------------------------------- C25
\* the relations of g without the referent flag, as (parent, child) pairs
PlainEdges(g) ==
    {<<g.relations[i].val.parent_id, g.relations[i].val.child_id>> :
        i \in {j \in 1..Len(g.relations) : ~g.relations[j].val.referent}}

\* the least element of a set of numbers, the sentinel for the empty set
MinOrMax(S) == IF S = {} THEN MAX ELSE CHOOSE m \in S : \A x \in S : m <= x

\* C25: after _assign_first_token_ids on a graph whose relations without the
\* referent flag close no cycle, every concept without token_ids has
\* first_token_id equal to the least first_token_id of its children by such
\* relations, the sentinel if it has none.
C25_FixedPoint ==
    (/\ call.op = "_assign_first_token_ids"
     /\ ret = None
     /\ \A e \in Paths(PlainEdges(graph), Len(graph.concepts)) : e[1] # e[2])
    => \A i \in 1..Len(graph.concepts) :
          Len(graph.concepts[i].val.token_ids) = 0
          => graph.concepts[i].val.first_token_id
               = MinOrMax({FirstTokenId(graph, cid) :
                              cid \in get_child_ids(graph, graph.concepts[i].key, TRUE)})


\* ---------------------------------------------------------------- C26
\* C26: _assign_first_token_ids returns on every graph, cycles of relations
\* without the referent flag included, after at most as many passes of its
\* while loop as there are concepts; every concept then has a first_token_id,
\* and a concept without token_ids from which no anchored concept is reached
\* by such relations has the sentinel.
C26_PassesBounded ==
    call.op = "_assign_first_token_ids"
    => /\ ret = None
       /\ call.passes <= Len(graph.concepts)
       /\ \A i \in 1..Len(graph.concepts) :
             /\ "first_token_id" \in DOMAIN graph.concepts[i].val
             /\ (/\ Len(graph.concepts[i].val.token_ids) = 0
                 /\ \A e \in Paths(PlainEdges(graph), Len(graph.concepts)) :
                       e[1] = graph.concepts[i].key
                       => Len(DictGet(graph.concepts, e[2]).token_ids) = 0)
                => graph.concepts[i].val.first_token_id = MAX

\* the pass has run on two concepts on a cycle and has left both with the
\* sentinel
C26_Witness ==
    /\ call.op = "_assign_first_token_ids"
    /\ call.passes = 1
    /\ Len(graph.concepts) = 2
    /\ \E e \in PlainEdges(graph) : e[1] # e[2] /\ <<e[2], e[1]>> \in PlainEdges(graph)
    /\ \A i \in 1..Len(graph.concepts) : graph.concepts[i].val.first_token_id = MAX


\* ---------------------------------------------------------------- C27
\* C27: penman_graphs returns for every graph built through the API, also
\* when relations without the referent flag form a cycle below a root: the
\* rendering never recurses without end.
C27_RenderingTerminates ==
    call.op = "penman_graphs" => ret # [raised |-> "RecursionError"]

\* ---------------------------------------------------------------- C29
\* sub occurs in s
Contains(s, sub) ==
    \E i \in 1..(Len(s) - Len(sub) + 1) : SubSeq(s, i, i + Len(sub) - 1) = sub

\* C29: the strings penman_graphs() returns hold a defining occurrence
\* '(id / name' of every concept of the graph, and every relation of the
\* graph, as ':label ' followed by the child's ID (for a referent) or by the
\* child's defining occurrence.
C29_RenderingLossless ==
    (call.op = "penman_graphs" /\ ~call.flag /\ "strs" \in DOMAIN ret)
    => /\ \A i \in 1..Len(graph.concepts) :
             \E k \in 1..Len(ret.strs) :
                Contains(ret.strs[k],
                         <<"(">> \o graph.concepts[i].key \o <<" ", "/", " ">>
                           \o chars(graph.concepts[i].val.name))
       /\ \A i \in 1..Len(graph.relations) :
             \E k \in 1..Len(ret.strs) :
                Contains(ret.strs[k],
                         <<":">> \o chars(graph.relations[i].val.label) \o <<" ">>
                           \o (IF graph.relations[i].val.referent THEN <<>> ELSE <<"(">>)
                           \o graph.relations[i].val.child_id)


\* ---------------------------------------------------------------- C28
\* the entries of rels by ascending first_token_id of the child, entries of
\* equal first_token_id in the order they have in rels
Ordered(g, rels) ==
    LET n == Len(rels)
        key(i) == DictGet(g.concepts, rels[i].val.child_id).first_token_id
        p == CHOOSE q \in [1..n -> 1..n] :
                /\ \A i, j \in 1..n : i # j => q[i] # q[j]
                /\ \A i, j \in 1..n :
                      i < j => \/ key(q[i]) < key(q[j])
                               \/ key(q[i]) = key(q[j]) /\ q[i] < q[j]
    IN [i \in 1..n |-> rels[p[i]]]

\* the relations the string s shows directly below its root: per line
\* indented by the length of '(root_id ', the child ID and whether it is
\* written bare
PrintedBelow(s, root_id) ==
    LET lead == Spaces(Len(root_id) + 2) \o <<":">>
        ls == SelectSeq(splitlines(s),
                        LAMBDA l : Len(l) > Len(lead) /\ SubSeq(l, 1, Len(lead)) = lead)
    IN [i \in 1..Len(ls) |->
          [child_id |-> SelectSeq(split(ls[i])[2], LAMBDA ch : ch \notin {"(", ")"}),
           referent |-> split(ls[i])[2][1] # "("]]

\* C28: when penman_graphs returns, the relations leaving every concept,
\* referent ones included, are taken in ascending order of the child's
\* first_token_id with equal ones kept in the order of the relation dict,
\* and each returned string lists the relations of its root in that order.
C28_ChildrenInFirstTokenOrder ==
    (call.op = "penman_graphs" /\ "strs" \in DOMAIN ret)
    => /\ \A i \in 1..Len(graph.concepts) :
             SortByFirst(graph, child_relations(graph, graph.concepts[i].key, FALSE))
               = Ordered(graph, child_relations(graph, graph.concepts[i].key, FALSE))
       /\ \A k \in 1..Len(ret.strs) :
             LET rels == Ordered(graph, child_relations(graph, root_ids(graph)[k], FALSE))
             IN PrintedBelow(ret.strs[k], root_ids(graph)[k])
                  = [i \in 1..Len(rels) |->
                       [child_id |-> rels[i].val.child_id,
                        referent |-> rels[i].val.referent]]

\* the root, anchored to the second token, has a referent relation to itself
\* added before the relation to a child anchored to the first token: the
\* child is printed first
C28_Witness ==
    /\ call.op = "penman_graphs" /\ "strs" \in DOMAIN ret /\ Len(ret.strs) = 1
    /\ Len(graph.relations) = 2
    /\ graph.relations[1].val.referent /\ ~graph.relations[2].val.referent
    /\ graph.relations[1].val.parent_id = graph.relations[2].val.parent_id
    /\ FirstTokenId(graph, graph.relations[1].val.child_id)
         > FirstTokenId(graph, graph.relations[2].val.child_id)
    /\ PrintedBelow(ret.strs[1], root_ids(graph)[1])
         = <<[child_id |-> graph.relations[2].val.child_id, referent |-> FALSE],
             [child_id |-> graph.relations[1].val.child_id, referent |-> TRUE]>>


\* ---------------------------------------------------------------- C30
\* C30: is_ancestor(a, b) with the default ignore_referent = False returns
\* True when a path of one or more relations without the referent flag
\* leads from a to b, and False otherwise, also when relations with the
\* flag join a and b.
C30_AncestorByPlainChain ==
    (call.op = "is_ancestor" /\ ~call.flag)
    => ret = [bool |-> <<call.concept_id1, call.concept_id2>>
                         \in Paths(PlainEdges(graph), Len(graph.concepts))]


\* ---------------------------------------------------------------- C31
\* C31: every add_relation returns 'r' followed by the relation counter, an
\* ID no relation has, stores one new relation under it after the others,
\* with the referent flag given, increments the counter by one and changes
\* nothing else of the graph; it does so whether or not its parent and child
\* IDs are concepts, are equal, or repeat an earlier relation.
C31_AddRelationEffect ==
    [][call'.op = "add_relation"
       => LET rid == <<"r">> \o str(graph._relation_id)
          IN /\ ret' = [id |-> rid]
             /\ rid \notin Keys(graph.relations)
             /\ \E parent_id \in ConceptIds, child_id \in ConceptIds, label \in Labels :
                   graph' = [graph EXCEPT
                               !._relation_id = graph._relation_id + 1,
                               !.relations = Append(graph.relations,
                                   [key |-> rid,
                                    val |-> Relation(parent_id, child_id, label,
                                                     call'.flag)])]]_vars

\* the relation just added leads from an ID that is no concept to itself
\* and repeats the relation before it
C31_Witness ==
    /\ call.op = "add_relation"
    /\ Len(graph.relations) = 2
    /\ graph.relations[2].key = ret.id
    /\ graph.relations[2].val = graph.relations[1].val
    /\ graph.relations[2].val.parent_id = graph.relations[2].val.child_id
    /\ graph.relations[2].val.parent_id \notin Keys(graph.concepts)


\* ---------------------------------------------------------------- C32
\* The line starts a document with a node that it also closes, '(id / name)',
\* and goes on with a relation label and then a constant, a reference or a
\* node opening: the label is pending while no node is open.
IsOrphan(rd, line) ==
    LET ts == TokensOf(line)
    IN /\ rd.result = Running
       /\ rd.graph = None
       /\ Len(ts) \in {5, 7}
       /\ ts[1][1] = "(" /\ ts[2] = <<"/">>
       /\ get_concept_name(ts[3]).cname # None
       /\ get_concept_name(ts[3]).nrrb = 1
       /\ ts[4][1] = ":" /\ Len(ts[4]) > 1
       /\ get_concept_name(ts[Len(ts)]).cname # None
       /\ Len(ts) = 5 => ts[5][1] \notin {"(", ":"}
       /\ Len(ts) = 7 => ts[5][1] = "(" /\ ts[6] = <<"/">>

\* C32: a node opening, a constant or a reference met while a relation label
\* is pending and no node is open is reported as 'missing parent concept'
\* with the number of the line, and penman_reader returns None.
C32_MissingParentIsError ==
    [][(call'.op = "read_line" /\ IsOrphan(reader, call'.line))
       => /\ reader'.result = [ret |-> None]
          /\ Len(reader'.printed) > 0
          /\ reader'.printed[Len(reader'.printed)]
               = [line |-> reader'.lid, msg |-> "missing parent concept"]]_vars

\* a reference to the root follows a label after the root was closed, in
\* the second document of the file: None is returned for the whole file
C32_Witness ==
    /\ call.op = "read_line"
    /\ Len(TokensOf(call.line)) = 5
    /\ TokensOf(call.line)[5] = Tail(TokensOf(call.line)[1])
    /\ Len(reader.graphs) = 1
    /\ reader.lid > 1
    /\ reader.result = [ret |-> None]
    /\ reader.printed = <<[line |-> reader.lid, msg |-> "missing parent concept"]>>


\* ---------------------------------------------------------------- C33
\* C33: a document is added to the result in the step that reads a line at
\* whose end no node is open, and in no other step; when the input ends
\* while a node is still open, penman_reader returns None.
C33_UnclosedDocumentIsError ==
    [][/\ reader'.graphs # reader.graphs
          <=> /\ call'.op = "read_line"
              /\ reader'.result = Running
              /\ reader.graph # None \/ (Len(TokensOf(call'.line)) > 0
                                         /\ TokensOf(call'.line)[1][1] = "(")
              /\ reader'.graph = None
              /\ reader'.graphs = Append(reader.graphs, Document(reader'))
       /\ (call'.op = "end_of_file" /\ reader.graph # None)
          => reader'.result = [ret |-> None]]_vars


\* ---------------------------------------------------------------- C34
\* the graph and the stack as populate_graph leaves them for the line, before
\* finalize_graph
Populated(rd, line) ==
    populate_graph([graph |-> IF rd.graph = None THEN create_graph(rd.comments).graph
                              ELSE rd.graph,
                    dstack |-> rd.dstack, printed |-> rd.printed, status |-> "ok"],
                   rd.lid + 1, TokensOf(line), 1)

\* the attribute concepts of g that carry a local node name of cid_map
Forward(g, cid_map) ==
    {g.concepts[i].key :
        i \in {j \in 1..Len(g.concepts) :
                  /\ g.concepts[j].val.attribute
                  /\ g.concepts[j].val.name \in Keys(cid_map)}}

\* C34: in the graph a completed document is returned as, no attribute
\* concept carries a local node name of the document: against the graph as
\* it was parsed, exactly those attributes are gone, each relation to one of
\* them leads to the generated ID of the node of that name with referent =
\* true, and every other concept and relation is as it was.
C34_ForwardReferencesFolded ==
    [][(call'.op = "read_line" /\ Len(reader'.graphs) = Len(reader.graphs) + 1)
       => LET p == Populated(reader, call'.line)
              g == p.graph
              cid_map == p.dstack.cid_map
              out == reader'.graphs[Len(reader'.graphs)]
          IN /\ Forward(out, cid_map) = {}
             /\ out.concepts
                  = SelectSeq(g.concepts, LAMBDA e : e.key \notin Forward(g, cid_map))
             /\ Len(out.relations) = Len(g.relations)
             /\ \A i \in 1..Len(g.relations) :
                   LET r == g.relations[i].val
                   IN /\ out.relations[i].key = g.relations[i].key
                      /\ out.relations[i].val
                           = IF r.child_id \in Forward(g, cid_map)
                             THEN [r EXCEPT
                                     !.child_id = DictGet(cid_map,
                                                    DictGet(g.concepts, r.child_id).name),
                                     !.referent = TRUE]
                             ELSE r
             /\ out._concept_id = g._concept_id
             /\ out._relation_id = g._relation_id]_vars

\* a document in which a name was used before its node was opened, next to
\* a constant that names no node, has been completed: the constant is kept
\* and the relation of the name leads to the node
C34_Witness ==
    /\ call.op = "read_line"
    /\ reader.result = Running
    /\ Len(reader.graphs) = 1
    /\ reader.lid = 4
    /\ LET out == reader.graphs[1]
       IN /\ Len(out.relations) = 3
          /\ Len(out.concepts) = 3
          /\ out.relations[1].val.referent
          /\ out.relations[1].val.child_id = out.relations[3].val.child_id
          /\ ~out.relations[3].val.referent
          /\ ~out.relations[2].val.referent
          /\ DictGet(out.concepts, out.relations[2].val.child_id).attribute


\* ---------------------------------------------------------------- C35
\* C35: in every document penman_reader has completed, and so in every graph
\* it returns, the parent_id and the child_id of every relation are IDs of
\* concepts of that graph.
C35_NoDanglingRelation ==
    \A k \in 1..Len(reader.graphs) :
       \A i \in 1..Len(reader.graphs[k].relations) :
          /\ reader.graphs[k].relations[i].val.parent_id \in Keys(reader.graphs[k].concepts)
          /\ reader.graphs[k].relations[i].val.child_id \in Keys(reader.graphs[k].concepts)

\* penman_reader has returned a graph from which an attribute was folded
\* away and which holds a relation with the referent flag
C35_Witness ==
    /\ call.op = "end_of_file"
    /\ reader.result = [ret |-> [graphs |-> reader.graphs]]
    /\ \E k \in 1..Len(reader.graphs) :
          /\ reader.graphs[k]._concept_id > Len(reader.graphs[k].concepts)
          /\ \E i \in 1..Len(reader.graphs[k].relations) :
                reader.graphs[k].relations[i].val.referent


\* ---------------------------------------------------------------- C36
\* The line, read inside a document, opens a node '(id / name', alone or after
\* a relation label, under a local name the document has already registered.
IsRedefinition(rd, line) ==
    LET ts == TokensOf(line)
        body == IF ts[1][1] = ":" THEN Tail(ts) ELSE ts
    IN /\ rd.result = Running
       /\ rd.graph # None
       /\ Len(body) = 3
       /\ body[1][1] = "(" /\ body[2] = <<"/">>
       /\ Tail(body[1]) \in Keys(rd.dstack.cid_map)

\* C36: opening a second node under a local name already registered in the
\* document is a parse error: penman_reader returns None.
C36_DuplicateNameIsError ==
    [][(call'.op = "read_line" /\ IsRedefinition(reader, call'.line))
       => reader'.result = [ret |-> None]]_vars


\* ---------------------------------------------------------------- C37
\* the indices the concept concept_id of g is anchored to
Held(g, concept_id) == set(DictGet(g.concepts, concept_id).token_ids)

\* C37: after every call covered_token_ids is the union of the token_ids of
\* all the concepts of the graph, attributes included; an add_token_ids that
\* succeeds returns indices that were not covered and adds them, and no
\* others, to the concept and to covered_token_ids; a remove_token_ids that
\* succeeds returns indices the concept held and takes them, and no others,
\* from the concept and from covered_token_ids.
C37_CoveredTracksConcepts ==
    [][/\ graph'.covered_token_ids = AllTokenIds(graph')
       /\ (call'.op = "add_token_ids" /\ ret' # None)
          => /\ ret'.token_ids # {}
             /\ ret'.token_ids \cap graph.covered_token_ids = {}
             /\ Held(graph', call'.id) = Held(graph, call'.id) \cup ret'.token_ids
             /\ graph'.covered_token_ids = graph.covered_token_ids \cup ret'.token_ids
       /\ (call'.op = "remove_token_ids" /\ ret' # None)
          => /\ ret'.token_ids # {}
             /\ ret'.token_ids \subseteq Held(graph, call'.id)
             /\ Held(graph', call'.id) = Held(graph, call'.id) \ ret'.token_ids
             /\ graph'.covered_token_ids = graph.covered_token_ids \ ret'.token_ids]_vars

\* an anchored concept has been removed from a graph in which an anchored
\* attribute remains: the indices of the attribute stay covered
C37_Witness ==
    /\ call.op = "remove_concept"
    /\ ret # None
    /\ Len(ret.concept.token_ids) > 0
    /\ ~ret.concept.attribute
    /\ Len(graph.concepts) = 1
    /\ graph.concepts[1].val.attribute
    /\ graph.covered_token_ids = set(graph.concepts[1].val.token_ids)
    /\ graph.covered_token_ids # {}


\* ---------------------------------------------------------------- C38
\* the number of places at which sub occurs in s
Occurrences(s, sub) ==
    Cardinality({i \in 1..(Len(s) - Len(sub) + 1) : SubSeq(s, i, i + Len(sub) - 1) = sub})

RECURSIVE SumOver(_, _)
SumOver(strs, sub) ==
    IF Len(strs) = 0 THEN 0 ELSE Occurrences(strs[1], sub) + SumOver(Tail(strs), sub)

\* C38: in the strings one penman_graphs() call returns, no concept has more
\* than one defining occurrence '(id / '.
C38_OneDefiningOccurrence ==
    (call.op = "penman_graphs" /\ ~call.flag /\ "strs" \in DOMAIN ret)
    => \A i \in 1..Len(graph.concepts) :
          SumOver(ret.strs, <<"(">> \o graph.concepts[i].key \o <<" ", "/", " ">>) <= 1


\* ---------------------------------------------------------------- C39
\* The line is read inside a document and is a bare token, alone or after a
\* relation label, whose name (without its trailing ')') is a local node
\* name of an earlier document of the file and of no node of this one.
IsStaleName(rd, line) ==
    LET ts == TokensOf(line)
        nm == get_concept_name(ts[Len(ts)])
    IN /\ rd.result = Running
       /\ rd.graph # None
       /\ Len(rd.graphs) > 0
       /\ Len(ts) \in {1, 2}
       /\ Len(ts) = 2 => ts[1][1] = ":"
       /\ ts[Len(ts)][1] \notin {"(", ":"}
       /\ nm.cname # None
       /\ nm.cname.s \notin Keys(rd.dstack.cid_map)
       /\ \E l \in FoldLines : \E j \in 1..Len(TokensOf(l)) :
             TokensOf(l)[j][1] = "(" /\ Tail(TokensOf(l)[j]) = nm.cname.s
       /\ Truthy(PendingLabel(rd, line))
       /\ nm.nrrb <= Len(rd.dstack.concept_stack)

\* C39: in the step that completes a document the reader starts afresh: no
\* graph, no open node, no local name, no pending label and no comment are
\* kept. A bare token of a later document that is a local name of an earlier
\* document only is read as a constant: a new attribute concept of that name
\* is added to the later graph and the relation to it has no referent flag,
\* in the graph being read and in the graph returned; the earlier graphs
\* are not changed.
C39_StatePerDocument ==
    [][/\ (call'.op = "read_line" /\ Len(reader'.graphs) > Len(reader.graphs))
          => /\ reader'.graph = None
             /\ reader'.dstack = DynamicStack
             /\ reader'.comments = <<>>
       /\ (call'.op = "read_line" /\ IsStaleName(reader, call'.line))
          => LET g == Document(reader')
                 r == LastRelation(g)
                 name == get_concept_name(
                            TokensOf(call'.line)[Len(TokensOf(call'.line))]).cname.s
             IN /\ reader'.result = Running
                /\ Len(g.concepts) = Len(reader.graph.concepts) + 1
                /\ Len(g.relations) = Len(reader.graph.relations) + 1
                /\ ~r.referent
                /\ r.child_id = g.concepts[Len(g.concepts)].key
                /\ g.concepts[Len(g.concepts)].val.attribute
                /\ g.concepts[Len(g.concepts)].val.name = name
                /\ r.child_id \notin Keys(reader.graph.concepts)
                /\ SubSeq(reader'.graphs, 1, Len(reader.graphs)) = reader.graphs]_vars

\* the first document has a root and a child node; the second names, in its
\* last line, the child of the first and is completed by it: its graph
\* holds the name as an attribute
C39_Witness ==
    /\ call.op = "read_line"
    /\ reader.result = Running
    /\ Len(reader.graphs) = 2
    /\ reader.graph = None
    /\ Len(reader.graphs[1].concepts) = 2
    /\ \A i \in 1..2 : ~reader.graphs[1].concepts[i].val.attribute
    /\ Len(reader.graphs[2].concepts) = 2
    /\ reader.graphs[2].concepts[2].val.attribute
    /\ reader.graphs[2].concepts[2].val.name
         = get_concept_name(TokensOf(call.line)[Len(TokensOf(call.line))]).cname.s
    /\ Tail(TokensOf(call.line)[Len(TokensOf(call.line))]) # <<>>
    /\ \E l \in FoldLines : \E j \in 1..Len(TokensOf(l)) :
          /\ TokensOf(l)[j][1] = "("
          /\ Tail(TokensOf(l)[j]) = reader.graphs[2].concepts[2].val.name
    /\ ~LastRelation(reader.graphs[2]).referent
    /\ LastRelation(reader.graphs[2]).child_id = reader.graphs[2].concepts[2].key



\* C40: in an editing session on a non-empty list of sentences, whatever
\* spans are selected and deselected, concepts and attributes created (or
\* their dialog left without a name), concepts deleted and sentences
\* navigated, the selected tokens are disjoint from the covered tokens of
\* the graph shown, so the add_concept of a creation is never rejected; and
\* a navigation that shows another sentence clears the selected tokens, the
\* selected parent and the selected child.
Uncovered(s) ==
    current_graph(s) # None =>
        s.selected_text_spans \cap current_graph(s).covered_token_ids = {}

C40_SelectionNeverCovered ==
    [][/\ Uncovered(session) /\ Uncovered(session')
       /\ (call'.op = "menu_create_concept" /\ call'.name # "") => ret' # None
       /\ session'.tid # session.tid =>
            /\ session'.selected_text_spans = {}
            /\ session'.selected_parent = None
            /\ session'.selected_child = None]_vars

\* a span was selected in a sentence of which a concept covers a token
C40_Witness ==
    /\ call.op = "menu_select_text_span"
    /\ session.selected_text_spans # {}
    /\ current_graph(session).covered_token_ids # {}

====
